---- MODULE Spec2Model ----
(***************************************************************************)
(* Verification model of the cola_label_verification package: the field    *)
(* resolver, the rule combinators, the checklist engine, the thread-safe   *)
(* OCR client wrappers and the gradio JobStore.                            *)
(*                                                                         *)
(* Python's Optional[T] is modelled as a sequence of length 0 or 1:        *)
(* None is <<>> and a present value v is <<v>>.                            *)
(***************************************************************************)
EXTENDS Integers, Sequences, FiniteSets, TLC

VARIABLES
    \* ---- field resolver (ocr/__init__.py)
    candidate,      \* Optional[FieldCandidate] handed to _resolve_field
    extraction,     \* Optional[FieldExtraction]: the value _resolve_field returned
    \* ---- rule combinators (rules/common.py)
    gateIn,         \* arguments of one require_beverage_type call
    gateOut,        \* None while pending, else Some(the Optional[Finding] returned)
    presenceIn,     \* arguments of one presence_rule call
    presenceOut,    \* None while pending, else Some(the Finding returned)
    \* ---- evaluate_checklist (rules/engine.py)
    ruleContext,    \* Optional[RuleContext] built by the running evaluation
    ruleIndex,      \* position of the comprehension in ALL_RULES (1-based)
    findings,       \* the list the comprehension has built so far
    calls,          \* rule functions called so far, in call order
    contextsSeen,   \* the RuleContext objects the rules were called with
    checklistResult, \* None while running, else how evaluate_checklist ended
    \* ---- ThreadSafeOcrClient / ThreadSafeStructureClient (ocr/clients.py)
    ocrPc,          \* where each calling thread is inside predict
    ocrLock,        \* self._lock: TRUE while some thread holds it
    ocrActive,      \* number of threads inside self._inner.predict
    ocrCallsLeft,   \* predict calls the threads may still start
    ocrLog,         \* outcomes of the finished predict calls, in order
    \* ---- JobStore (gradio_app.py)
    jobHeap,        \* the JobState objects created so far, by job id
    _jobs,          \* self._jobs: the ids whose JobState is in the map
    _queue,         \* self._queue: job ids waiting for the worker
    _lock,          \* self._lock: None, or the thread that holds it
    clients,        \* per caller thread: position and locals inside a JobStore method
    workers,        \* per worker thread: position and locals inside _worker_loop
    processed,      \* job ids whose payload was handed to _process_job, in order
    \* ---- single calls of the pure functions, and one extraction run
    callIn,         \* None, or Some(arguments) of the call under check
    callOut,        \* None while pending, else Some(what the call returned)
    pipeline        \* None, or Some(locals of a running extract_label_info_with_spans)

resolveVars == <<candidate, extraction>>
commonVars == <<gateIn, gateOut, presenceIn, presenceOut>>
checklistVars == <<ruleContext, ruleIndex, findings, calls, contextsSeen, checklistResult>>
ocrVars == <<ocrPc, ocrLock, ocrActive, ocrCallsLeft, ocrLog>>
jobVars == <<jobHeap, _jobs, _queue, _lock, clients, workers, processed>>
callVars == <<callIn, callOut, pipeline>>
notJobVars == <<resolveVars, commonVars, checklistVars, ocrVars, callVars>>
notCallVars == <<resolveVars, commonVars, checklistVars, ocrVars, jobVars>>
vars == <<resolveVars, commonVars, checklistVars, ocrVars, jobVars, callVars>>

None == <<>>
Some(x) == <<x>>
IsNone(o) == o = <<>>
Get(o) == o[1]
Optional(S) == {None} \cup {Some(x) : x \in S}

----------------------------------------------------------------------------
\* Bounds of the model.

\* Largest token count carried by a TokenVerification.
MaxTokens == 3

\* Threads calling predict on one client, and predict calls they start in all.
NumOcrThreads == 2
MaxOcrCalls == 3

\* Calls made to the public methods of one JobStore.
MaxCalls == 3

\* JobStore.__init__ starts one worker thread.
NumWorkers == 1

----------------------------------------------------------------------------
\* rules/models.py and rules/common.py : findings and the two combinators.

FindingStatus == {"pass", "fail", "needs_review", "not_applicable", "not_evaluated"}
FindingSeverity == {"info", "warning", "error"}
BeverageType == {"distilled_spirits", "wine"}

\* build_finding: severity defaults to "warning".
build_finding(rule_id, status, message, severity, field) ==
    [rule_id |-> rule_id, status |-> status, message |-> message,
     severity |-> severity, field |-> field]

DefaultSeverity == "warning"

\* Mutant: falls back to the applicant-selected type when nothing was classified.
resolve_beverage_type_or_selected(context) ==
    IF IsNone(context.label_info.beverage_type)
    THEN IF IsNone(context.application_fields)
         THEN None
         ELSE Get(context.application_fields).beverage_type
    ELSE Some(Get(context.label_info.beverage_type).beverage_type)

\* resolve_beverage_type: the type of label_info.beverage_type, or None.
resolve_beverage_type(context) ==
    IF IsNone(context.label_info.beverage_type)
    THEN None
    ELSE Some(Get(context.label_info.beverage_type).beverage_type)

\* Mutant: a label of the other beverage type is let through to the rule's own logic.
require_beverage_type_only_when_unselected(context, allowed, rule_id, field) ==
    LET beverage_type == resolve_beverage_type(context) IN
    IF IsNone(beverage_type)
    THEN Some(build_finding(rule_id, "not_evaluated",
                            "Beverage type not selected; rule not evaluated.",
                            "info", field))
    ELSE None

\* require_beverage_type: Optional[Finding]; None lets the rule's own logic run.
require_beverage_type(context, allowed, rule_id, field) ==
    LET beverage_type == resolve_beverage_type(context) IN
    IF IsNone(beverage_type)
    THEN Some(build_finding(rule_id, "not_evaluated",
                            "Beverage type not selected; rule not evaluated.",
                            "info", field))
    ELSE IF Get(beverage_type) \notin allowed
    THEN Some(build_finding(rule_id, "not_applicable",
                            "Rule not applicable to the selected beverage type.",
                            "info", field))
    ELSE None

\* Python truthiness of a str | None value.
Truthy(value) == ~IsNone(value) /\ Get(value) # ""

\* Python truthiness of an optional tuple.
TruthySeq(value) == ~IsNone(value) /\ Len(Get(value)) > 0

\* `a or b` on two optional message strings.
OrElse(a, b) == IF Truthy(a) THEN Get(a) ELSE b

\* Mutant: the requirement is consulted before the value.
presence_rule_requirement_first(value, rule_id, field, present_message, missing_message, required, not_applicable_message, not_evaluated_message) ==
    IF required = Some(FALSE)
    THEN build_finding(rule_id, "not_applicable",
                       OrElse(not_applicable_message, missing_message),
                       "info", field)
    ELSE IF Truthy(value)
    THEN build_finding(rule_id, "pass", present_message, "info", field)
    ELSE IF required = Some(TRUE)
    THEN build_finding(rule_id, "fail", missing_message, DefaultSeverity, field)
    ELSE build_finding(rule_id, "not_evaluated",
                       OrElse(not_evaluated_message, missing_message),
                       "info", field)

\* presence_rule: required is Optional[bool] (None: requirement unknown).
presence_rule(value, rule_id, field, present_message, missing_message, required, not_applicable_message, not_evaluated_message) ==
    IF Truthy(value)
    THEN build_finding(rule_id, "pass", present_message, "info", field)
    ELSE IF required = Some(TRUE)
    THEN build_finding(rule_id, "fail", missing_message, DefaultSeverity, field)
    ELSE IF required = Some(FALSE)
    THEN build_finding(rule_id, "not_applicable",
                       OrElse(not_applicable_message, missing_message),
                       "info", field)
    ELSE build_finding(rule_id, "not_evaluated",
                       OrElse(not_evaluated_message, missing_message),
                       "info", field)

----------------------------------------------------------------------------
\* models.py, rules/models.py : LabelInfo, FieldExtraction, RuleContext.

LabelFields == <<"brand_name", "class_type", "statement_of_composition", "grape_varietals", "appellation_of_origin", "percentage_of_foreign_wine", "alcohol_content", "net_contents", "name_and_address", "warning_text", "country_of_origin", "sulfite_declaration", "coloring_materials", "fd_and_c_yellow_5", "carmine", "treatment_with_wood", "commodity_statement_neutral_spirits", "commodity_statement_distilled_from", "state_of_distillation", "statement_of_age">>

LabelFieldNames == {LabelFields[i] : i \in 1..Len(LabelFields)}

\* FieldExtraction(): every slot defaults to no value and no metadata.  Of the
\* metadata map only the keys the rules read are kept; confidence, evidence,
\* source and status are read by no rule.
NoNormalized == [field_of_vision |-> None, warning_boldness |-> None, warning_header_image_index |-> None, warning_header_bbox |-> None]

MissingField == [value |-> None, numeric_value |-> None, normalized |-> None]

TextField(text) == [value |-> Some(text), numeric_value |-> None, normalized |-> None]

\* Texts of the label fields.  A text is an atom here; every string function the
\* rules apply to it is tabulated below for exactly these texts.
CANONICAL_WARNING_TEXT == "GOVERNMENT WARNING: (1) According to the Surgeon General, women should not drink alcoholic beverages during pregnancy because of the risk of birth defects. (2) Consumption of alcoholic beverages impairs your ability to drive a car or operate machinery, and may cause health problems."

CANONICAL_WARNING_UPPER == "GOVERNMENT WARNING: (1) ACCORDING TO THE SURGEON GENERAL, WOMEN SHOULD NOT DRINK ALCOHOLIC BEVERAGES DURING PREGNANCY BECAUSE OF THE RISK OF BIRTH DEFECTS. (2) CONSUMPTION OF ALCOHOLIC BEVERAGES IMPAIRS YOUR ABILITY TO DRIVE A CAR OR OPERATE MACHINERY, AND MAY CAUSE HEALTH PROBLEMS."

\* The canonical text with the header split over two lines.
WARNING_HEADER_BROKEN == "GOVERNMENT\nWARNING: (1) According to the Surgeon General, women should not drink alcoholic beverages during pregnancy because of the risk of birth defects. (2) Consumption of alcoholic beverages impairs your ability to drive a car or operate machinery, and may cause health problems."

\* Header present, wording cut short.
WARNING_TRUNCATED == "GOVERNMENT WARNING: (1) According to the Surgeon General, women should not drink alcoholic beverages during pregnancy."

\* Header in the wrong case for an exact match, surgeon general in lower case.
WARNING_LOWER_SURGEON == "Government Warning: (1) According to the surgeon general, women should not drink alcoholic beverages during pregnancy because of the risk of birth defects. (2) Consumption of alcoholic beverages impairs your ability to drive a car or operate machinery, and may cause health problems."

WARNING_NO_HEADER == "Drink responsibly."

WarningTexts == {CANONICAL_WARNING_TEXT, CANONICAL_WARNING_UPPER, WARNING_HEADER_BROKEN, WARNING_TRUNCATED, WARNING_LOWER_SURGEON, WARNING_NO_HEADER}

\* _normalize_warning_text: " ".join(text.split())
_normalize_warning_text(text) ==
    IF text = WARNING_HEADER_BROKEN THEN CANONICAL_WARNING_TEXT ELSE text

\* str.isupper() on the normalized warning texts.
IsUpper(text) == text = CANONICAL_WARNING_UPPER

_matches_canonical_warning(text) ==
    _normalize_warning_text(text) = CANONICAL_WARNING_TEXT

_matches_canonical_warning_all_caps(text) ==
    LET normalized == _normalize_warning_text(text) IN
    IF ~IsUpper(normalized) THEN FALSE ELSE normalized = CANONICAL_WARNING_UPPER

\* "GOVERNMENT WARNING" in value.upper(): the raw value, not the normalized one.
HeaderPresent(value) ==
    value \in {CANONICAL_WARNING_TEXT, CANONICAL_WARNING_UPPER, WARNING_TRUNCATED, WARNING_LOWER_SURGEON}

\* "GOVERNMENT WARNING:" in normalized_text (case-sensitive).
HasHeaderColon(normalized_text) ==
    normalized_text \in {CANONICAL_WARNING_TEXT, CANONICAL_WARNING_UPPER, WARNING_TRUNCATED}

\* "Surgeon General" in normalized_text (case-sensitive).
HasSurgeonGeneral(normalized_text) ==
    normalized_text \in {CANONICAL_WARNING_TEXT, WARNING_TRUNCATED}

\* "SURGEON GENERAL" in normalized_text (case-sensitive).
HasSurgeonGeneralUpper(normalized_text) ==
    normalized_text = CANONICAL_WARNING_UPPER

_exactness_issue(normalized_text, exact_match) ==
    IF exact_match THEN None
    ELSE IF ~HasHeaderColon(normalized_text)
    THEN Some("header text may not be correctly formatted")
    ELSE IF ~HasSurgeonGeneral(normalized_text)
    THEN IF IsUpper(normalized_text) /\ HasSurgeonGeneralUpper(normalized_text)
         THEN Some("wording does not exactly match the required statement")
         ELSE Some("capitalization for Surgeon General may be incorrect")
    ELSE Some("wording does not exactly match the required statement")

\* Class/type texts and _trim_class_type_value on them: the value is cut at the
\* first stop pattern after the first class keyword, then stripped of leading
\* and trailing non-alphanumerics.
ClassTypeTexts == {"VODKA", "VODKA 40% ALC/VOL", "--", "Cabernet Sauvignon"}

_trim_class_type_value(value) ==
    CASE value = "VODKA 40% ALC/VOL" -> "VODKA"
      [] value = "--" -> ""
      [] OTHER -> value

\* Varietal texts and their standing on the approved list after
\* split_grape_varietals and normalize_grape_name.
VarietalTexts == {"Arandell", "Arandell & Baga", "Arandell / Concordia Nova"}

\* The names of a varietal text that are not on the approved list.
UnknownVarietals(value) ==
    IF value = "Arandell / Concordia Nova" THEN <<"Concordia Nova">> ELSE <<>>

\* ApplicationFields: the two entries the rules read.
SourcesOfProduct == {None, Some(<<" Imported ">>), Some(<<"domestic">>), Some(<<"domestic", "IMPORTED">>), Some(<<"other">>)}

\* item.strip().lower() on the source entries above.
StripLower(item) ==
    CASE item = " Imported " -> "imported"
      [] item = "IMPORTED" -> "imported"
      [] OTHER -> item

\* Mutant: a declared domestic source wins over a declared imported one.
is_imported_domestic_first(application_fields) ==
    IF IsNone(application_fields) THEN None
    ELSE IF ~TruthySeq(Get(application_fields).source_of_product) THEN None
    ELSE LET items == Get(Get(application_fields).source_of_product)
             normalized == {StripLower(items[i]) : i \in 1..Len(items)}
         IN IF "domestic" \in normalized THEN Some(FALSE)
            ELSE IF "imported" \in normalized THEN Some(TRUE)
            ELSE None

\* is_imported: Optional[bool].
is_imported(application_fields) ==
    IF IsNone(application_fields) THEN None
    ELSE IF ~TruthySeq(Get(application_fields).source_of_product) THEN None
    ELSE LET items == Get(Get(application_fields).source_of_product)
             normalized == {StripLower(items[i]) : i \in 1..Len(items)}
         IN IF "imported" \in normalized THEN Some(TRUE)
            ELSE IF "domestic" \in normalized THEN Some(FALSE)
            ELSE None

----------------------------------------------------------------------------
\* rules/*.py : the checklist rules, each RuleContext -> Finding.

\* rules/beverage_type_presence.py.  Scores are kept in tenths and a confidence
\* as the exact fraction [num, den] (den = 0 stands for the float 0.0 of an
\* empty total).
WINE_WEIGHT == 15
SPIRITS_WEIGHT == 12
_MIN_CLASSIFY_SCORE == 12

\* Mutant: a confidence of exactly 0.6 is not enough.
AboveMinAutoConfidence(confidence) ==
    confidence.den > 0 /\ 10 * confidence.num > 6 * confidence.den

\* _MIN_AUTO_CONFIDENCE = 0.6 = 6/10
AtLeastMinAutoConfidence(confidence) ==
    confidence.den > 0 /\ 10 * confidence.num >= 6 * confidence.den

RECURSIVE SumHits(_, _)
SumHits(text_blocks, kind) ==
    IF text_blocks = <<>> THEN 0
    ELSE Head(text_blocks)[kind] + SumHits(Tail(text_blocks), kind)

\* _score_keywords: weight for every (block, keyword) hit; a text block is
\* kept as the number of wine and of spirits keywords it contains.
_score_keywords(text_blocks, kind, weight) == weight * SumHits(text_blocks, kind)

\* Mutant: equal scores go to distilled spirits.
classify_beverage_type_spirits_on_tie(text_blocks) ==
    IF text_blocks = <<>> THEN None
    ELSE LET wine_score == _score_keywords(text_blocks, "wine", WINE_WEIGHT)
             spirits_score == _score_keywords(text_blocks, "spirits", SPIRITS_WEIGHT)
             total == wine_score + spirits_score
         IN IF wine_score < _MIN_CLASSIFY_SCORE /\ spirits_score < _MIN_CLASSIFY_SCORE
            THEN None
            ELSE IF wine_score > spirits_score
            THEN Some([beverage_type |-> "wine", confidence |-> [num |-> wine_score, den |-> total]])
            ELSE Some([beverage_type |-> "distilled_spirits", confidence |-> [num |-> spirits_score, den |-> total]])

classify_beverage_type(text_blocks) ==
    IF text_blocks = <<>> THEN None
    ELSE LET wine_score == _score_keywords(text_blocks, "wine", WINE_WEIGHT)
             spirits_score == _score_keywords(text_blocks, "spirits", SPIRITS_WEIGHT)
             total == wine_score + spirits_score
         IN IF wine_score < _MIN_CLASSIFY_SCORE /\ spirits_score < _MIN_CLASSIFY_SCORE
            THEN None
            ELSE IF wine_score >= spirits_score
            THEN Some([beverage_type |-> "wine", confidence |-> [num |-> wine_score, den |-> total]])
            ELSE Some([beverage_type |-> "distilled_spirits", confidence |-> [num |-> spirits_score, den |-> total]])

should_auto_apply_classification(prediction) ==
    IF IsNone(prediction) THEN FALSE
    ELSE AtLeastMinAutoConfidence(Get(prediction).confidence)

\* _predict_from_spans: spans with empty text are skipped.
_predict_from_spans(spans) ==
    IF ~TruthySeq(spans) THEN None
    ELSE LET text_blocks == SelectSeq(Get(spans), LAMBDA span : span.text_nonempty) IN
         IF text_blocks = <<>> THEN None ELSE classify_beverage_type(text_blocks)

\* Lines 151-156: the label's classification if there is one, else the spans.
beverage_type_prediction_source(context) ==
    IF ~IsNone(context.label_info.beverage_type) THEN "label_info" ELSE "ocr_spans"

beverage_type_presence(context) ==
    LET selected == IF IsNone(context.application_fields) THEN None ELSE Get(context.application_fields).beverage_type
        from_label == ~IsNone(context.label_info.beverage_type)
        prediction == IF from_label THEN context.label_info.beverage_type ELSE _predict_from_spans(context.spans)
    IN IF ~IsNone(selected)
       THEN IF IsNone(prediction)
            THEN build_finding("beverage_type_presence", "needs_review", "Beverage type selected, but none was detected on the label.", "warning", "beverage_type")
            ELSE IF Get(prediction).beverage_type # Get(selected)
            THEN build_finding("beverage_type_presence", "needs_review", "Selected beverage type does not match the detected label type.", "warning", "beverage_type")
            ELSE build_finding("beverage_type_presence", "pass", "Selected beverage type matches the detected label type.", "info", "beverage_type")
       ELSE IF IsNone(prediction)
       THEN build_finding("beverage_type_presence", "fail", "Beverage type not detected on the label.", DefaultSeverity, "beverage_type")
       ELSE IF should_auto_apply_classification(prediction)
       THEN build_finding("beverage_type_presence", "pass", "Beverage type detected on the label.", "info", "beverage_type")
       ELSE build_finding("beverage_type_presence", "needs_review", "Beverage type detected, but confidence is low.", "warning", "beverage_type")

\* rules/warning_text.py.  A measured crop is kept as the verdict of
\* _fallback_without_peers on its metrics, or None when _measure_metrics
\* rejects it.
estimate_boldness_without_peers(image) ==
    IF IsNone(image.header_metrics) THEN None
    ELSE Some([status |-> Get(image.header_metrics), reason |-> Some("no_peer_spans")])

\* (field.normalized or {}) with the keys the rule reads.
NormalizedOrEmpty(field) == IF IsNone(field.normalized) THEN NoNormalized ELSE Get(field.normalized)

\* Mutant: the verdict of the fallback without peers is kept.
_compute_warning_boldness_keeping_status(context, normalized) ==
    IF ~TruthySeq(context.images) THEN None
    ELSE IF IsNone(normalized.warning_header_image_index) THEN None
    ELSE LET header_index == Get(normalized.warning_header_image_index) IN
         IF header_index < 0 \/ header_index >= Len(Get(context.images)) THEN None
         ELSE IF IsNone(normalized.warning_header_bbox) THEN None
         ELSE estimate_boldness_without_peers(Get(context.images)[header_index + 1])

_compute_warning_boldness(context, normalized) ==
    IF ~TruthySeq(context.images) THEN None
    ELSE IF IsNone(normalized.warning_header_image_index) THEN None
    ELSE LET header_index == Get(normalized.warning_header_image_index) IN
         IF header_index < 0 \/ header_index >= Len(Get(context.images)) THEN None
         ELSE IF IsNone(normalized.warning_header_bbox) THEN None
         ELSE LET boldness == estimate_boldness_without_peers(Get(context.images)[header_index + 1]) IN
              IF ~IsNone(boldness) /\ Get(boldness).reason = Some("no_peer_spans")
              THEN Some([Get(boldness) EXCEPT !.status = "needs_review"])
              ELSE boldness

\* _boldness_evidence(...)["status"]
_boldness_evidence(boldness) ==
    IF ~IsNone(boldness) THEN Get(boldness)
    ELSE [status |-> "needs_review", reason |-> Some("boldness_unavailable")]

_boldness_issue(boldness_evidence) ==
    IF boldness_evidence.status = "pass" THEN None
    ELSE Some("header boldness could not be confirmed")

\* Mutant: the boldness of the header is not consulted.
warning_text_without_boldness(context) ==
    LET value == context.label_info.warning_text.value IN
    IF ~Truthy(value)
    THEN build_finding("warning_text", "fail", "Government warning statement not detected.", DefaultSeverity, "warning_text")
    ELSE LET normalized_text == _normalize_warning_text(Get(value))
             header_present == HeaderPresent(Get(value))
             exact_match == _matches_canonical_warning(Get(value)) \/ _matches_canonical_warning_all_caps(Get(value))
             normalized_fields == NormalizedOrEmpty(context.label_info.warning_text)
             boldness == IF ~IsNone(normalized_fields.warning_boldness)
                         THEN normalized_fields.warning_boldness
                         ELSE _compute_warning_boldness(context, normalized_fields)
             boldness_evidence == _boldness_evidence(boldness)
             exactness_issue == IF header_present THEN _exactness_issue(normalized_text, exact_match) ELSE None
             has_text_issue == ~header_present \/ ~IsNone(exactness_issue)
             boldness_issue == None
             has_issues == has_text_issue \/ ~IsNone(boldness_issue)
         IN IF has_issues
            THEN build_finding("warning_text", "needs_review",
                    IF ~has_text_issue
                    THEN "Warning statement text matches the required wording, but header boldness could not be confirmed."
                    ELSE "Warning statement detected, but issues were found.",
                    IF has_text_issue THEN "warning" ELSE "info", "warning_text")
            ELSE build_finding("warning_text", "pass", "Warning statement matches the required text and header appears bold.", "info", "warning_text")

warning_text(context) ==
    LET value == context.label_info.warning_text.value IN
    IF ~Truthy(value)
    THEN build_finding("warning_text", "fail", "Government warning statement not detected.", DefaultSeverity, "warning_text")
    ELSE LET normalized_text == _normalize_warning_text(Get(value))
             header_present == HeaderPresent(Get(value))
             exact_match == _matches_canonical_warning(Get(value)) \/ _matches_canonical_warning_all_caps(Get(value))
             normalized_fields == NormalizedOrEmpty(context.label_info.warning_text)
             boldness == IF ~IsNone(normalized_fields.warning_boldness)
                         THEN normalized_fields.warning_boldness
                         ELSE _compute_warning_boldness(context, normalized_fields)
             boldness_evidence == _boldness_evidence(boldness)
             exactness_issue == IF header_present THEN _exactness_issue(normalized_text, exact_match) ELSE None
             has_text_issue == ~header_present \/ ~IsNone(exactness_issue)
             boldness_issue == IF header_present THEN _boldness_issue(boldness_evidence) ELSE None
             has_issues == has_text_issue \/ ~IsNone(boldness_issue)
         IN IF has_issues
            THEN build_finding("warning_text", "needs_review",
                    IF ~has_text_issue
                    THEN "Warning statement text matches the required wording, but header boldness could not be confirmed."
                    ELSE "Warning statement detected, but issues were found.",
                    IF has_text_issue THEN "warning" ELSE "info", "warning_text")
            ELSE build_finding("warning_text", "pass", "Warning statement matches the required text and header appears bold.", "info", "warning_text")

name_and_address_presence(context) ==
    IF Truthy(context.label_info.name_and_address.value)
    THEN build_finding("name_and_address_presence", "pass", "Name and address statement detected.", "info", "name_and_address")
    ELSE build_finding("name_and_address_presence", "fail", "Name and address statement not detected.", DefaultSeverity, "name_and_address")

brand_name_presence(context) ==
    IF ~Truthy(context.label_info.brand_name.value)
    THEN build_finding("brand_name_presence", "fail", "Brand name not detected on the label.", DefaultSeverity, "brand_name")
    ELSE build_finding("brand_name_presence", "pass", "Brand name detected.", "info", "brand_name")

class_type_presence(context) ==
    LET beverage_type == resolve_beverage_type(context)
        label_info == context.label_info
        label_value == label_info.class_type.value
        normalized_label_value == IF Truthy(label_value) THEN Some(_trim_class_type_value(Get(label_value))) ELSE label_value
    IN IF IsNone(beverage_type)
       THEN build_finding("class_type_presence", "not_evaluated", "Beverage type not selected; class/type not evaluated.", "info", "class_type")
       ELSE IF Get(beverage_type) \notin {"distilled_spirits", "wine"}
       THEN build_finding("class_type_presence", "not_applicable", "Class/type rule not applicable to the selected beverage type.", "info", "class_type")
       ELSE IF Get(beverage_type) = "wine" /\ ~Truthy(normalized_label_value)
       THEN IF Truthy(label_info.grape_varietals.value) \/ Truthy(label_info.statement_of_composition.value)
            THEN build_finding("class_type_presence", "not_applicable", "Class/type designation omitted; varietal or composition serves as designation.", "info", "class_type")
            ELSE build_finding("class_type_presence", "fail", "Class/type designation not detected.", DefaultSeverity, "class_type")
       ELSE IF Get(beverage_type) # "wine" /\ ~Truthy(normalized_label_value)
       THEN build_finding("class_type_presence", "fail", "Class/type designation not detected.", DefaultSeverity, "class_type")
       ELSE build_finding("class_type_presence", "pass", "Class/type designation detected.", "info", "class_type")

alcohol_content_presence(context) ==
    LET field == context.label_info.alcohol_content IN
    IF ~Truthy(field.value) /\ IsNone(field.numeric_value)
    THEN build_finding("alcohol_content_presence", "fail", "Alcohol content not detected.", DefaultSeverity, "alcohol_content")
    ELSE build_finding("alcohol_content_presence", "pass", "Alcohol content detected.", "info", "alcohol_content")

net_contents_presence(context) ==
    LET field == context.label_info.net_contents IN
    IF ~Truthy(field.value) /\ IsNone(field.numeric_value)
    THEN build_finding("net_contents_presence", "fail", "Net contents statement not detected.", DefaultSeverity, "net_contents")
    ELSE build_finding("net_contents_presence", "pass", "Net contents statement detected.", "info", "net_contents")

country_of_origin_presence(context) ==
    presence_rule(context.label_info.country_of_origin.value, "country_of_origin_presence", "country_of_origin", "Country of origin statement detected.", "Country of origin statement not detected.", is_imported(context.application_fields), Some("Country of origin statement not required for domestic products."), Some("Source of product not provided; cannot determine if country of origin statement is required."))

sulfite_declaration_presence(context) ==
    presence_rule(context.label_info.sulfite_declaration.value, "sulfite_declaration_presence", "sulfite_declaration", "Sulfite declaration detected.", "Sulfite declaration not detected; requirement depends on formulation.", None, None, None)

fd_and_c_yellow_5_presence(context) ==
    presence_rule(context.label_info.fd_and_c_yellow_5.value, "fd_and_c_yellow_5_presence", "fd_and_c_yellow_5", "FD&C Yellow #5 disclosure detected.", "FD&C Yellow #5 disclosure not detected; requirement depends on formulation.", None, None, None)

carmine_presence(context) ==
    presence_rule(context.label_info.carmine.value, "carmine_presence", "carmine", "Carmine/cochineal disclosure detected.", "Carmine/cochineal disclosure not detected; requirement depends on formulation.", None, None, None)

\* Mutant: only a needs_review status of the metadata keeps the finding from pass.
field_of_vision_check_unknown_passes(context) ==
    LET gate == require_beverage_type(context, {"distilled_spirits"}, "field_of_vision", "field_of_vision")
        metadata == NormalizedOrEmpty(context.label_info.brand_name)
        field_of_vision == metadata.field_of_vision
    IN IF ~IsNone(gate) THEN Get(gate)
       ELSE IF IsNone(field_of_vision)
       THEN build_finding("field_of_vision", "needs_review", "Field-of-vision metadata unavailable.", DefaultSeverity, "field_of_vision")
       ELSE IF Get(field_of_vision).status = "needs_review"
       THEN build_finding("field_of_vision", "needs_review", "Brand, class/type, and alcohol content may not be in the same field of vision.", DefaultSeverity, "field_of_vision")
       ELSE build_finding("field_of_vision", "pass", "Brand, class/type, and alcohol content appear in the same field of vision.", "info", "field_of_vision")

\* rules/field_of_vision.py : the rule reads brand_name.normalized["field_of_vision"].
field_of_vision_check(context) ==
    LET gate == require_beverage_type(context, {"distilled_spirits"}, "field_of_vision", "field_of_vision")
        metadata == NormalizedOrEmpty(context.label_info.brand_name)
        field_of_vision == metadata.field_of_vision
    IN IF ~IsNone(gate) THEN Get(gate)
       ELSE IF IsNone(field_of_vision)
       THEN build_finding("field_of_vision", "needs_review", "Field-of-vision metadata unavailable.", DefaultSeverity, "field_of_vision")
       ELSE IF Get(field_of_vision).status = "pass"
       THEN build_finding("field_of_vision", "pass", "Brand, class/type, and alcohol content appear in the same field of vision.", "info", "field_of_vision")
       ELSE IF Get(field_of_vision).status = "needs_review"
       THEN build_finding("field_of_vision", "needs_review", "Brand, class/type, and alcohol content may not be in the same field of vision.", DefaultSeverity, "field_of_vision")
       ELSE build_finding("field_of_vision", "needs_review", "Field-of-vision status could not be determined.", DefaultSeverity, "field_of_vision")

statement_of_composition_presence(context) ==
    LET gate == require_beverage_type(context, {"distilled_spirits"}, "statement_of_composition_presence", "statement_of_composition") IN
    IF ~IsNone(gate) THEN Get(gate)
    ELSE presence_rule(context.label_info.statement_of_composition.value, "statement_of_composition_presence", "statement_of_composition", "Statement of composition detected.", "Statement of composition not detected; required for some distinctive or fanciful designations.", None, None, None)

coloring_materials_presence(context) ==
    LET gate == require_beverage_type(context, {"distilled_spirits"}, "coloring_materials_presence", "coloring_materials") IN
    IF ~IsNone(gate) THEN Get(gate)
    ELSE presence_rule(context.label_info.coloring_materials.value, "coloring_materials_presence", "coloring_materials", "Coloring materials disclosure detected.", "Coloring materials disclosure not detected; requirement depends on formulation.", None, None, None)

treatment_with_wood_presence(context) ==
    LET gate == require_beverage_type(context, {"distilled_spirits"}, "treatment_with_wood_presence", "treatment_with_wood") IN
    IF ~IsNone(gate) THEN Get(gate)
    ELSE presence_rule(context.label_info.treatment_with_wood.value, "treatment_with_wood_presence", "treatment_with_wood", "Treatment with wood disclosure detected.", "Treatment with wood disclosure not detected; requirement depends on production method.", None, None, None)

commodity_statement_neutral_spirits_presence(context) ==
    LET gate == require_beverage_type(context, {"distilled_spirits"}, "commodity_statement_neutral_spirits_presence", "commodity_statement_neutral_spirits") IN
    IF ~IsNone(gate) THEN Get(gate)
    ELSE presence_rule(context.label_info.commodity_statement_neutral_spirits.value, "commodity_statement_neutral_spirits_presence", "commodity_statement_neutral_spirits", "Neutral spirits commodity statement detected.", "Neutral spirits commodity statement not detected; requirement depends on formulation.", None, None, None)

commodity_statement_distilled_from_presence(context) ==
    LET gate == require_beverage_type(context, {"distilled_spirits"}, "commodity_statement_distilled_from_presence", "commodity_statement_distilled_from") IN
    IF ~IsNone(gate) THEN Get(gate)
    ELSE presence_rule(context.label_info.commodity_statement_distilled_from.value, "commodity_statement_distilled_from_presence", "commodity_statement_distilled_from", "Distilled-from commodity statement detected.", "Distilled-from commodity statement not detected; requirement depends on formulation.", None, None, None)

state_of_distillation_presence(context) ==
    LET gate == require_beverage_type(context, {"distilled_spirits"}, "state_of_distillation_presence", "state_of_distillation") IN
    IF ~IsNone(gate) THEN Get(gate)
    ELSE presence_rule(context.label_info.state_of_distillation.value, "state_of_distillation_presence", "state_of_distillation", "State of distillation statement detected.", "State of distillation statement not detected; requirement depends on product type.", None, None, None)

statement_of_age_presence(context) ==
    LET gate == require_beverage_type(context, {"distilled_spirits"}, "statement_of_age_presence", "statement_of_age") IN
    IF ~IsNone(gate) THEN Get(gate)
    ELSE presence_rule(context.label_info.statement_of_age.value, "statement_of_age_presence", "statement_of_age", "Statement of age detected.", "Statement of age not detected; requirement depends on product type and aging.", None, None, None)

wine_designation_present(context) ==
    LET gate == require_beverage_type(context, {"wine"}, "wine_designation_presence", "class_type")
        label_info == context.label_info
    IN IF ~IsNone(gate) THEN Get(gate)
       ELSE IF Truthy(label_info.class_type.value) \/ Truthy(label_info.grape_varietals.value) \/ Truthy(label_info.statement_of_composition.value)
       THEN build_finding("wine_designation_presence", "pass", "Wine designation detected on the label.", "info", "class_type")
       ELSE build_finding("wine_designation_presence", "fail", "Wine designation not detected on the label.", DefaultSeverity, "class_type")

\* Mutant: the approved list is applied to imported wine as well.
grape_varietals_checking_imported(context) ==
    LET gate == require_beverage_type(context, {"wine"}, "grape_varietals", "grape_varietals")
        label_info == context.label_info
        label_value == label_info.grape_varietals.value
        missing_appellation == ~Truthy(label_info.appellation_of_origin.value)
        imported == is_imported(context.application_fields)
        approval_status ==
            IF IsNone(imported) THEN "not_evaluated"
            ELSE IF UnknownVarietals(Get(label_value)) # <<>> THEN "needs_review"
            ELSE IF Get(imported) THEN "not_applicable"
            ELSE IF UnknownVarietals(Get(label_value)) # <<>> THEN "needs_review"
            ELSE "pass"
        approval_message ==
            IF IsNone(imported) THEN "Source of product not provided; cannot validate varietal approval."
            ELSE IF UnknownVarietals(Get(label_value)) # <<>> THEN "Grape varietal designation may not be approved for domestic wine."
            ELSE IF Get(imported) THEN "Imported wines are not restricted to the domestic varietal list."
            ELSE IF UnknownVarietals(Get(label_value)) # <<>> THEN "Grape varietal designation may not be approved for domestic wine."
            ELSE "Grape varietal designation is on the approved list."
        field == IF missing_appellation /\ approval_status # "needs_review" THEN "appellation_of_origin" ELSE "grape_varietals"
        status ==
            IF missing_appellation THEN "needs_review"
            ELSE IF approval_status = "needs_review" THEN "needs_review"
            ELSE IF approval_status = "not_evaluated" THEN "not_evaluated"
            ELSE "pass"
        message ==
            IF missing_appellation /\ approval_status = "needs_review"
            THEN "Appellation not detected with a grape varietal designation, and one or more varietals may not be approved for domestic wine."
            ELSE IF missing_appellation THEN "Appellation not detected with a grape varietal designation."
            ELSE approval_message
        severity == IF status \in {"pass", "not_applicable", "not_evaluated"} THEN "info" ELSE "warning"
    IN IF ~IsNone(gate) THEN Get(gate)
       ELSE IF ~Truthy(label_value)
       THEN build_finding("grape_varietals", "fail", "Grape varietals not detected on the label.", DefaultSeverity, "grape_varietals")
       ELSE build_finding("grape_varietals", status, message, severity, field)

\* rules/grape_varietals.py : the approved list is never empty, so the
\* "list not available" branch is dead.
grape_varietals(context) ==
    LET gate == require_beverage_type(context, {"wine"}, "grape_varietals", "grape_varietals")
        label_info == context.label_info
        label_value == label_info.grape_varietals.value
        missing_appellation == ~Truthy(label_info.appellation_of_origin.value)
        imported == is_imported(context.application_fields)
        approval_status ==
            IF IsNone(imported) THEN "not_evaluated"
            ELSE IF Get(imported) THEN "not_applicable"
            ELSE IF UnknownVarietals(Get(label_value)) # <<>> THEN "needs_review"
            ELSE "pass"
        approval_message ==
            IF IsNone(imported) THEN "Source of product not provided; cannot validate varietal approval."
            ELSE IF Get(imported) THEN "Imported wines are not restricted to the domestic varietal list."
            ELSE IF UnknownVarietals(Get(label_value)) # <<>> THEN "Grape varietal designation may not be approved for domestic wine."
            ELSE "Grape varietal designation is on the approved list."
        field == IF missing_appellation /\ approval_status # "needs_review" THEN "appellation_of_origin" ELSE "grape_varietals"
        status ==
            IF missing_appellation THEN "needs_review"
            ELSE IF approval_status = "needs_review" THEN "needs_review"
            ELSE IF approval_status = "not_evaluated" THEN "not_evaluated"
            ELSE "pass"
        message ==
            IF missing_appellation /\ approval_status = "needs_review"
            THEN "Appellation not detected with a grape varietal designation, and one or more varietals may not be approved for domestic wine."
            ELSE IF missing_appellation THEN "Appellation not detected with a grape varietal designation."
            ELSE approval_message
        severity == IF status \in {"pass", "not_applicable", "not_evaluated"} THEN "info" ELSE "warning"
    IN IF ~IsNone(gate) THEN Get(gate)
       ELSE IF ~Truthy(label_value)
       THEN build_finding("grape_varietals", "fail", "Grape varietals not detected on the label.", DefaultSeverity, "grape_varietals")
       ELSE build_finding("grape_varietals", status, message, severity, field)

appellation_presence(context) ==
    LET gate == require_beverage_type(context, {"wine"}, "appellation_presence", "appellation_of_origin") IN
    IF ~IsNone(gate) THEN Get(gate)
    ELSE IF ~Truthy(context.label_info.appellation_of_origin.value)
    THEN build_finding("appellation_presence", "fail", "Appellation not detected on the label.", DefaultSeverity, "appellation_of_origin")
    ELSE build_finding("appellation_presence", "pass", "Appellation detected on the label.", "info", "appellation_of_origin")

percentage_of_foreign_wine_presence(context) ==
    LET gate == require_beverage_type(context, {"wine"}, "percentage_of_foreign_wine_presence", "percentage_of_foreign_wine") IN
    IF ~IsNone(gate) THEN Get(gate)
    ELSE presence_rule(context.label_info.percentage_of_foreign_wine.value, "percentage_of_foreign_wine_presence", "percentage_of_foreign_wine", "Percentage of foreign wine statement detected.", "Percentage of foreign wine statement not detected; requirement depends on labeling.", None, None, None)

----------------------------------------------------------------------------
\* rules/field_of_vision.py : _field_of_vision_metadata, _apply_field_of_vision.
\* A normalized dict is kept as a record of its keys, each None when the key is
\* absent; the dict is empty when every key is absent.  Coordinates are whole
\* pixels, span_ratio is kept in ten-thousandths (round(span_ratio, 4)).

EmptyDict == [bbox |-> None, image_index |-> None, verification |-> None, field_of_vision |-> None]

\* `not candidate.normalized`: None or the empty dict.
DictTruthy(normalized) == ~IsNone(normalized) /\ Get(normalized) # EmptyDict

FovRequired == <<"brand_name", "class_type", "alcohol_content">>

FovUnknown(reason) == [status |-> "unknown", reason |-> Some(reason), image_index |-> None, span_ratio |-> None, bbox_union |-> None]

\* Lines 16-24: why one field stops the loop, or None when it is usable.
FovFieldProblem(cand) ==
    IF IsNone(cand) THEN Some("missing_fields")
    ELSE IF ~DictTruthy(Get(cand).normalized) THEN Some("missing_fields")
    ELSE LET normalized == Get(Get(cand).normalized) IN
         IF IsNone(normalized.bbox) THEN Some("missing_bbox")
         ELSE IF Len(Get(normalized.bbox)) # 4 THEN Some("missing_bbox")
         ELSE IF IsNone(normalized.image_index) THEN Some("missing_image_index")
         ELSE IF Get(normalized.image_index) < 0 THEN Some("missing_image_index")
         ELSE None

SetMin(S) == CHOOSE x \in S : \A y \in S : x <= y
SetMax(S) == CHOOSE x \in S : \A y \in S : x >= y

\* round(n / d, 0) for n >= 0, d > 0: ties go to the even neighbour.
RoundDiv(n, d) ==
    LET q == n \div d
        r == n % d
    IN IF 2 * r > d \/ (2 * r = d /\ q % 2 = 1) THEN q + 1 ELSE q

\* Mutant: the three fields are not required to lie on one image.
_field_of_vision_metadata_any_image(candidates, image_sizes) ==
    LET problems == {i \in 1..3 : ~IsNone(FovFieldProblem(candidates[FovRequired[i]]))} IN
    IF problems # {}
    THEN FovUnknown(Get(FovFieldProblem(candidates[FovRequired[SetMin(problems)]])))
    ELSE LET spans == [i \in 1..3 |-> Get(Get(candidates[FovRequired[i]]).normalized)]
             image_index == Get(spans[1].image_index)
         IN IF image_index >= Len(image_sizes) THEN FovUnknown("image_index_out_of_range")
            ELSE LET image_width == image_sizes[image_index + 1][1] IN
                 IF image_width <= 0 THEN FovUnknown("invalid_image_size")
                 ELSE LET min_x == SetMin({Get(spans[i].bbox)[1] : i \in 1..3})
                          min_y == SetMin({Get(spans[i].bbox)[2] : i \in 1..3})
                          max_x == SetMax({Get(spans[i].bbox)[3] : i \in 1..3})
                          max_y == SetMax({Get(spans[i].bbox)[4] : i \in 1..3})
                      IN [status |-> IF 10 * (max_x - min_x) <= 4 * image_width THEN "pass" ELSE "needs_review",
                          reason |-> None,
                          image_index |-> Some(image_index),
                          span_ratio |-> Some(RoundDiv(10000 * (max_x - min_x), image_width)),
                          bbox_union |-> Some(<<min_x, min_y, max_x, max_y>>)]

_field_of_vision_metadata(candidates, image_sizes) ==
    LET problems == {i \in 1..3 : ~IsNone(FovFieldProblem(candidates[FovRequired[i]]))} IN
    IF problems # {}
    THEN FovUnknown(Get(FovFieldProblem(candidates[FovRequired[SetMin(problems)]])))
    ELSE LET spans == [i \in 1..3 |-> Get(Get(candidates[FovRequired[i]]).normalized)]
             image_indices == {Get(spans[i].image_index) : i \in 1..3}
         IN IF Cardinality(image_indices) # 1
            THEN [status |-> "needs_review", reason |-> Some("multiple_images"), image_index |-> None, span_ratio |-> None, bbox_union |-> None]
            ELSE LET image_index == CHOOSE x \in image_indices : TRUE IN
                 IF image_index >= Len(image_sizes) THEN FovUnknown("image_index_out_of_range")
                 ELSE LET image_width == image_sizes[image_index + 1][1] IN
                      IF image_width <= 0 THEN FovUnknown("invalid_image_size")
                      ELSE LET min_x == SetMin({Get(spans[i].bbox)[1] : i \in 1..3})
                               min_y == SetMin({Get(spans[i].bbox)[2] : i \in 1..3})
                               max_x == SetMax({Get(spans[i].bbox)[3] : i \in 1..3})
                               max_y == SetMax({Get(spans[i].bbox)[4] : i \in 1..3})
                           IN [status |-> IF 10 * (max_x - min_x) <= 4 * image_width THEN "pass" ELSE "needs_review",
                               reason |-> None,
                               image_index |-> Some(image_index),
                               span_ratio |-> Some(RoundDiv(10000 * (max_x - min_x), image_width)),
                               bbox_union |-> Some(<<min_x, min_y, max_x, max_y>>)]

\* Mutant: update() builds the FieldExtraction without numeric_value and unit.
update_dropping_numeric(field, metadata) ==
    [value |-> field.value,
     confidence |-> field.confidence,
     evidence |-> field.evidence,
     source |-> field.source,
     status |-> field.status,
     normalized |-> Some([k \in DOMAIN EmptyDict |->
                            IF k = "field_of_vision" THEN Some(metadata)
                            ELSE IF DictTruthy(field.normalized) THEN Get(field.normalized)[k]
                            ELSE None]),
     numeric_value |-> None,
     unit |-> None]

\* The inner update(field): a new FieldExtraction, a new dict.
update(field, metadata) ==
    [value |-> field.value,
     confidence |-> field.confidence,
     evidence |-> field.evidence,
     source |-> field.source,
     status |-> field.status,
     normalized |-> Some([k \in DOMAIN EmptyDict |->
                            IF k = "field_of_vision" THEN Some(metadata)
                            ELSE IF DictTruthy(field.normalized) THEN Get(field.normalized)[k]
                            ELSE None]),
     numeric_value |-> field.numeric_value,
     unit |-> field.unit]

\* _field_of_vision_metadata never returns None, so the early return is dead.
_apply_field_of_vision(label_info, candidates, image_sizes) ==
    LET metadata == _field_of_vision_metadata(candidates, image_sizes) IN
    [f \in DOMAIN label_info |->
        IF f \in {"brand_name", "class_type", "alcohol_content"}
        THEN update(label_info[f], metadata)
        ELSE label_info[f]]

----------------------------------------------------------------------------
\* ocr/__init__.py : _resolve_field and _verification_status.

\* The shapes candidate.normalized["verification"] can take: a TokenVerification
\* (int counts), a Mapping (counts that may be absent), or any other object.
TokenVerification ==
    [kind : {"TokenVerification"},
     token_count : Optional(0..MaxTokens),
     matched_token_count : Optional(0..MaxTokens)]
VerificationValues ==
    {v \in TokenVerification :
        ~IsNone(v.token_count) /\ ~IsNone(v.matched_token_count)}
    \cup [kind : {"Mapping"},
          token_count : Optional(0..MaxTokens),
          matched_token_count : Optional(0..MaxTokens)]
    \cup {[kind |-> "other", token_count |-> None, matched_token_count |-> None]}

\* candidate.normalized: None, a dict without "verification", or a dict with it.
NormalizedValues ==
    {None, Some([verification |-> None])}
    \cup {Some([verification |-> Some(v)]) : v \in VerificationValues}

FieldCandidates ==
    [value : {"", "OLD TOM"},
     confidence : Optional({0, 100}),
     evidence : Optional({"OLD TOM"}),
     normalized : NormalizedValues,
     numeric_value : {None},
     unit : {None}]

\* (candidate.normalized or {}).get("verification")
VerificationOf(cand) ==
    IF IsNone(cand.normalized) THEN None ELSE Get(cand.normalized).verification

\* Mutant: the token_count > 0 test is dropped.
_verification_status_without_zero_test(cand) ==
    LET verification == VerificationOf(cand) IN
    IF IsNone(verification) \/ Get(verification).kind = "other"
    THEN "needs_review"
    ELSE LET token_count == Get(verification).token_count
             matched_token_count == Get(verification).matched_token_count
         IN IF /\ ~IsNone(token_count)
               /\ ~IsNone(matched_token_count)
               /\ Get(matched_token_count) = Get(token_count)
            THEN "verified"
            ELSE "needs_review"

_verification_status(cand) ==
    LET verification == VerificationOf(cand) IN
    IF IsNone(verification) \/ Get(verification).kind = "other"
    THEN "needs_review"
    ELSE LET token_count == Get(verification).token_count
             matched_token_count == Get(verification).matched_token_count
         IN IF /\ ~IsNone(token_count)
               /\ ~IsNone(matched_token_count)
               /\ Get(token_count) > 0
               /\ Get(matched_token_count) = Get(token_count)
            THEN "verified"
            ELSE "needs_review"

\* _resolve_field: a FieldCandidate dataclass instance is always truthy, so
\* `if candidate:` tests for None.
_resolve_field(cand) ==
    IF ~IsNone(cand)
    THEN [value |-> Some(Get(cand).value),
          confidence |-> Get(cand).confidence,
          evidence |-> Get(cand).evidence,
          source |-> "qwen",
          status |-> _verification_status(Get(cand)),
          normalized |-> Get(cand).normalized,
          numeric_value |-> Get(cand).numeric_value,
          unit |-> Get(cand).unit]
    ELSE [value |-> None,
          confidence |-> None,
          evidence |-> None,
          source |-> "qwen",
          status |-> "missing",
          normalized |-> None,
          numeric_value |-> None,
          unit |-> None]

ResolveIdle == candidate = None /\ extraction = None
CallIdle == callIn = None /\ callOut = None /\ pipeline = None
OcrThreads == 1..NumOcrThreads

\* Every call is made by a thread of its own; the threads are numbered in the
\* order in which their calls start.
Clients == 1..MaxCalls

\* Mutant: two worker threads drain the queue.
TwoWorkers == 1..2

Workers == 1..NumWorkers
IdleClient == [pc |-> "idle", job_id |-> 0, job_ids |-> <<>>, job |-> None, listed |-> <<>>, seen |-> <<>>]
IdleWorker == [pc |-> "dequeue", job_id |-> 0, job |-> None, changes |-> <<>>, next |-> "dequeue"]
JobsIdle ==
    /\ jobHeap = <<>> /\ _jobs = {} /\ _queue = <<>> /\ _lock = None
    /\ clients = [c \in Clients |-> IdleClient]
    /\ workers = [w \in Workers |-> IdleWorker]
    /\ processed = <<>>
OcrIdle ==
    /\ ocrPc = [t \in OcrThreads |-> "idle"] /\ ocrLock = FALSE /\ ocrActive = 0
    /\ ocrCallsLeft = 0 /\ ocrLog = <<>>
ChecklistIdle ==
    /\ ruleContext = None /\ ruleIndex = 1 /\ findings = <<>> /\ calls = <<>>
    /\ contextsSeen = {} /\ checklistResult = None
CommonIdle ==
    /\ gateIn = None /\ gateOut = None
    /\ presenceIn = None /\ presenceOut = None

InitResolve ==
    /\ candidate \in Optional(FieldCandidates)
    /\ extraction = None
    /\ CommonIdle
    /\ ChecklistIdle
    /\ OcrIdle
    /\ JobsIdle
    /\ CallIdle

ResolveField ==
    /\ extraction = None
    /\ extraction' = Some(_resolve_field(candidate))
    /\ UNCHANGED <<candidate, commonVars, checklistVars, ocrVars, jobVars, callVars>>

NextResolve == ResolveField

SpecResolve == InitResolve /\ [][NextResolve]_vars

----------------------------------------------------------------------------
\* Calls of the two combinators of rules/common.py on enumerated arguments.

\* Confidence values (percent) a BeverageTypeClassification may carry.
Confidences == {50, 100}

BeverageTypeClassification ==
    [beverage_type : BeverageType, confidence : Confidences]

GateInputs ==
    [classification : Optional(BeverageTypeClassification),
     selected : Optional(BeverageType),
     has_application_fields : BOOLEAN,
     allowed : SUBSET BeverageType]

\* The RuleContext a gate call sees: only label_info.beverage_type and the
\* application fields matter to rules/common.py.
GateContext(in) ==
    [label_info |-> [beverage_type |-> in.classification],
     application_fields |->
        IF in.has_application_fields
        THEN Some([beverage_type |-> in.selected])
        ELSE None]

PresenceInputs ==
    [value : Optional({"", "PRODUCT OF FRANCE"}),
     required : Optional(BOOLEAN),
     not_applicable_message : Optional({"Not required"}),
     not_evaluated_message : Optional({"Unknown"})]

InitCommon ==
    /\ gateIn \in {Some(in) : in \in
                      {g \in GateInputs :
                          g.has_application_fields \/ g.selected = None}}
    /\ gateOut = None
    /\ presenceIn \in {Some(in) : in \in PresenceInputs}
    /\ presenceOut = None
    /\ ResolveIdle
    /\ ChecklistIdle
    /\ OcrIdle
    /\ JobsIdle
    /\ CallIdle

RequireBeverageType ==
    /\ gateOut = None
    /\ gateOut' = Some(require_beverage_type(GateContext(Get(gateIn)),
                                             Get(gateIn).allowed,
                                             "rule_id", "field"))
    /\ UNCHANGED <<gateIn, presenceIn, presenceOut, resolveVars, checklistVars, ocrVars, jobVars, callVars>>

PresenceRule ==
    /\ presenceOut = None
    /\ presenceOut' =
          Some(presence_rule(Get(presenceIn).value, "rule_id", "field",
                             "Present", "Missing", Get(presenceIn).required,
                             Get(presenceIn).not_applicable_message,
                             Get(presenceIn).not_evaluated_message))
    /\ UNCHANGED <<gateIn, gateOut, presenceIn, resolveVars, checklistVars, ocrVars, jobVars, callVars>>

NextCommon == RequireBeverageType \/ PresenceRule

SpecCommon == InitCommon /\ [][NextCommon]_vars

----------------------------------------------------------------------------
\* rules/engine.py : the rule lists and evaluate_checklist.

COMMON_RULES == <<"beverage_type_presence", "warning_text", "name_and_address_presence", "brand_name_presence", "class_type_presence", "alcohol_content_presence", "net_contents_presence", "country_of_origin_presence", "sulfite_declaration_presence", "fd_and_c_yellow_5_presence", "carmine_presence">>

DISTILLED_SPIRITS_RULES == <<"field_of_vision_check", "statement_of_composition_presence", "coloring_materials_presence", "treatment_with_wood_presence", "commodity_statement_neutral_spirits_presence", "commodity_statement_distilled_from_presence", "state_of_distillation_presence", "statement_of_age_presence">>

WINE_RULES == <<"wine_designation_present", "grape_varietals", "appellation_presence", "percentage_of_foreign_wine_presence">>

\* Mutant: the wine rules are listed before the spirits rules.
ALL_RULES_wine_before_spirits == COMMON_RULES \o WINE_RULES \o DISTILLED_SPIRITS_RULES

ALL_RULES == COMMON_RULES \o DISTILLED_SPIRITS_RULES \o WINE_RULES

\* rule(context) for the rule function of that name.
CallRule(rule, ctx) ==
    CASE rule = "beverage_type_presence" -> beverage_type_presence(ctx)
      [] rule = "warning_text" -> warning_text(ctx)
      [] rule = "name_and_address_presence" -> name_and_address_presence(ctx)
      [] rule = "brand_name_presence" -> brand_name_presence(ctx)
      [] rule = "class_type_presence" -> class_type_presence(ctx)
      [] rule = "alcohol_content_presence" -> alcohol_content_presence(ctx)
      [] rule = "net_contents_presence" -> net_contents_presence(ctx)
      [] rule = "country_of_origin_presence" -> country_of_origin_presence(ctx)
      [] rule = "sulfite_declaration_presence" -> sulfite_declaration_presence(ctx)
      [] rule = "fd_and_c_yellow_5_presence" -> fd_and_c_yellow_5_presence(ctx)
      [] rule = "carmine_presence" -> carmine_presence(ctx)
      [] rule = "field_of_vision_check" -> field_of_vision_check(ctx)
      [] rule = "statement_of_composition_presence" -> statement_of_composition_presence(ctx)
      [] rule = "coloring_materials_presence" -> coloring_materials_presence(ctx)
      [] rule = "treatment_with_wood_presence" -> treatment_with_wood_presence(ctx)
      [] rule = "commodity_statement_neutral_spirits_presence" -> commodity_statement_neutral_spirits_presence(ctx)
      [] rule = "commodity_statement_distilled_from_presence" -> commodity_statement_distilled_from_presence(ctx)
      [] rule = "state_of_distillation_presence" -> state_of_distillation_presence(ctx)
      [] rule = "statement_of_age_presence" -> statement_of_age_presence(ctx)
      [] rule = "wine_designation_present" -> wine_designation_present(ctx)
      [] rule = "grape_varietals" -> grape_varietals(ctx)
      [] rule = "appellation_presence" -> appellation_presence(ctx)
      [] rule = "percentage_of_foreign_wine_presence" -> percentage_of_foreign_wine_presence(ctx)

\* The labels an evaluation is run on: the label with no field detected and
\* the label with every field detected, each varied in one field.
FieldVariants(f) ==
    CASE f = "brand_name" ->
            {[value |-> Some("OLD TOM"), numeric_value |-> None, normalized |-> Some([NoNormalized EXCEPT !.field_of_vision = fov])] :
                fov \in {None} \cup {Some([status |-> st]) : st \in {"pass", "needs_review", "unknown"}}}
      [] f = "class_type" -> {TextField(t) : t \in ClassTypeTexts}
      [] f = "grape_varietals" -> {TextField(t) : t \in VarietalTexts}
      [] f \in {"alcohol_content", "net_contents"} ->
            {TextField("750"), [value |-> None, numeric_value |-> Some(750), normalized |-> None]}
      [] f = "warning_text" ->
            {[value |-> Some(t), numeric_value |-> None, normalized |-> n] :
                t \in WarningTexts,
                n \in {None,
                       Some([NoNormalized EXCEPT !.warning_header_image_index = Some(0), !.warning_header_bbox = Some(<<10, 10, 200, 40>>)])}
                      \cup {Some([NoNormalized EXCEPT !.warning_boldness = Some([status |-> st, reason |-> None])]) : st \in {"pass", "needs_review"}}}
      [] OTHER -> {TextField("detected"), [value |-> Some(""), numeric_value |-> None, normalized |-> None]}

SomeVariant(f) == CHOOSE v \in FieldVariants(f) : Truthy(v.value)

EmptyLabelFields == [f \in LabelFieldNames |-> MissingField]
FullLabelFields == [f \in LabelFieldNames |-> SomeVariant(f)]

LabelFieldMaps ==
    {EmptyLabelFields, FullLabelFields}
    \cup UNION {{[base EXCEPT ![f] = v] :
                    base \in {EmptyLabelFields, FullLabelFields},
                    v \in FieldVariants(f) \cup {MissingField}} :
                 f \in LabelFieldNames}

\* LabelInfo: the 20 field slots plus beverage_type.
LabelInfo(fields, classification) == fields @@ ("beverage_type" :> classification)

\* A classification from the model hint carries confidence 1.0.
HintClassifications == {None} \cup {Some([beverage_type |-> t, confidence |-> [num |-> 1, den |-> 1]]) : t \in BeverageType}

ChecklistApplicationFields ==
    {None,
     Some([beverage_type |-> Some("wine"), source_of_product |-> Some(<<" Imported ">>)]),
     Some([beverage_type |-> None, source_of_product |-> Some(<<"domestic">>)])}

\* OCR spans, each kept as whether its text is non-empty and how many wine and
\* spirits keywords the text contains.
ChecklistSpans ==
    {None, Some(<<[text_nonempty |-> TRUE, wine |-> 0, spirits |-> 1], [text_nonempty |-> TRUE, wine |-> 1, spirits |-> 0]>>)}

\* Images, each kept as what measuring the warning-header crop yields.
ChecklistImages == {None, Some(<<[header_metrics |-> Some("pass")]>>)}

\* evaluate_checklist, lines 117-124: the context is built once.
InitChecklist ==
    /\ \E fields \in LabelFieldMaps, classification \in HintClassifications,
          application_fields \in ChecklistApplicationFields,
          spans \in ChecklistSpans, images \in ChecklistImages :
            ruleContext = Some([label_info |-> LabelInfo(fields, classification),
                            application_fields |-> application_fields,
                            spans |-> spans,
                            images |-> images])
    /\ ruleIndex = 1
    /\ findings = <<>>
    /\ calls = <<>>
    /\ contextsSeen = {}
    /\ checklistResult = None
    /\ ResolveIdle
    /\ CommonIdle
    /\ OcrIdle
    /\ JobsIdle
    /\ CallIdle

\* One iteration of the comprehension: the next rule is called and returns.
RuleReturns ==
    /\ checklistResult = None
    /\ ruleIndex <= Len(ALL_RULES)
    /\ findings' = Append(findings, CallRule(ALL_RULES[ruleIndex], Get(ruleContext)))
    /\ calls' = Append(calls, ALL_RULES[ruleIndex])
    /\ contextsSeen' = contextsSeen \cup {Get(ruleContext)}
    /\ ruleIndex' = ruleIndex + 1
    /\ UNCHANGED <<ruleContext, checklistResult, resolveVars, commonVars, ocrVars, jobVars, callVars>>

\* Mutant: the exception is caught and replaced by a pass finding.
RuleRaisesAndIsSwallowed ==
    /\ checklistResult = None
    /\ ruleIndex <= Len(ALL_RULES)
    /\ findings' = Append(findings, build_finding(ALL_RULES[ruleIndex], "pass", "ok", "info", ""))
    /\ calls' = Append(calls, ALL_RULES[ruleIndex])
    /\ contextsSeen' = contextsSeen \cup {Get(ruleContext)}
    /\ ruleIndex' = ruleIndex + 1
    /\ UNCHANGED <<ruleContext, checklistResult, resolveVars, commonVars, ocrVars, jobVars, callVars>>

\* One iteration of the comprehension: the next rule is called and raises.
\* Nothing catches the exception: the list under construction is dropped and
\* evaluate_checklist ends with the exception.
RuleRaises ==
    /\ checklistResult = None
    /\ ruleIndex <= Len(ALL_RULES)
    /\ calls' = Append(calls, ALL_RULES[ruleIndex])
    /\ contextsSeen' = contextsSeen \cup {Get(ruleContext)}
    /\ checklistResult' = Some([kind |-> "raised", raised_by |-> ALL_RULES[ruleIndex], findings |-> None])
    /\ UNCHANGED <<ruleContext, ruleIndex, findings, resolveVars, commonVars, ocrVars, jobVars, callVars>>

\* Line 126: ChecklistResult(findings=findings).
ReturnChecklist ==
    /\ checklistResult = None
    /\ ruleIndex = Len(ALL_RULES) + 1
    /\ checklistResult' = Some([kind |-> "returned", raised_by |-> "", findings |-> Some(findings)])
    /\ UNCHANGED <<ruleContext, ruleIndex, findings, calls, contextsSeen, resolveVars, commonVars, ocrVars, jobVars, callVars>>

NextChecklist == RuleReturns \/ RuleRaises \/ ReturnChecklist

SpecChecklist == InitChecklist /\ [][NextChecklist]_vars

----------------------------------------------------------------------------
\* ocr/clients.py : ThreadSafeOcrClient.predict and
\* ThreadSafeStructureClient.predict, both `with self._lock: return
\* self._inner.predict(...)`.  A thread is idle (outside predict), waiting
\* (blocked in the lock's __enter__), locked (holds the lock, about to call
\* the backend), in_backend, or leaving the with block after the backend
\* returned (exit_return) or raised (exit_raise).

\* __init__: a fresh unlocked Lock.
InitOcr ==
    /\ ocrPc = [t \in OcrThreads |-> "idle"]
    /\ ocrLock = FALSE
    /\ ocrActive = 0
    /\ ocrCallsLeft = MaxOcrCalls
    /\ ocrLog = <<>>
    /\ ResolveIdle
    /\ CommonIdle
    /\ ChecklistIdle
    /\ JobsIdle
    /\ CallIdle

\* A thread calls predict and reaches the with statement.
CallPredict(t) ==
    /\ ocrPc[t] = "idle"
    /\ ocrCallsLeft > 0
    /\ ocrCallsLeft' = ocrCallsLeft - 1
    /\ ocrPc' = [ocrPc EXCEPT ![t] = "waiting"]
    /\ UNCHANGED <<ocrLock, ocrActive, ocrLog, resolveVars, commonVars, checklistVars, jobVars, callVars>>

\* Mutant: the with statement is missing, the backend is called unlocked.
AcquireLockWithoutWaiting(t) ==
    /\ ocrPc[t] = "waiting"
    /\ ocrLock' = TRUE
    /\ ocrPc' = [ocrPc EXCEPT ![t] = "locked"]
    /\ UNCHANGED <<ocrActive, ocrCallsLeft, ocrLog, resolveVars, commonVars, checklistVars, jobVars, callVars>>

\* Lock.__enter__: blocks until the lock is free, then takes it.
AcquireLock(t) ==
    /\ ocrPc[t] = "waiting"
    /\ ~ocrLock
    /\ ocrLock' = TRUE
    /\ ocrPc' = [ocrPc EXCEPT ![t] = "locked"]
    /\ UNCHANGED <<ocrActive, ocrCallsLeft, ocrLog, resolveVars, commonVars, checklistVars, jobVars, callVars>>

\* self._inner.predict(...) is entered.
EnterBackend(t) ==
    /\ ocrPc[t] = "locked"
    /\ ocrActive' = ocrActive + 1
    /\ ocrPc' = [ocrPc EXCEPT ![t] = "in_backend"]
    /\ UNCHANGED <<ocrLock, ocrCallsLeft, ocrLog, resolveVars, commonVars, checklistVars, jobVars, callVars>>

\* The backend returns its result.
BackendReturns(t) ==
    /\ ocrPc[t] = "in_backend"
    /\ ocrActive' = ocrActive - 1
    /\ ocrPc' = [ocrPc EXCEPT ![t] = "exit_return"]
    /\ UNCHANGED <<ocrLock, ocrCallsLeft, ocrLog, resolveVars, commonVars, checklistVars, jobVars, callVars>>

\* The backend raises.
BackendRaises(t) ==
    /\ ocrPc[t] = "in_backend"
    /\ ocrActive' = ocrActive - 1
    /\ ocrPc' = [ocrPc EXCEPT ![t] = "exit_raise"]
    /\ UNCHANGED <<ocrLock, ocrCallsLeft, ocrLog, resolveVars, commonVars, checklistVars, jobVars, callVars>>

\* Mutant: the lock is released by hand after the call, so not when it raises.
ReleaseLockOnReturnOnly(t) ==
    /\ ocrPc[t] \in {"exit_return", "exit_raise"}
    /\ ocrLock' = (ocrPc[t] = "exit_raise")
    /\ ocrLog' = Append(ocrLog, IF ocrPc[t] = "exit_return" THEN "returned" ELSE "raised")
    /\ ocrPc' = [ocrPc EXCEPT ![t] = "idle"]
    /\ UNCHANGED <<ocrActive, ocrCallsLeft, resolveVars, commonVars, checklistVars, jobVars, callVars>>

\* Lock.__exit__: the with block releases the lock on return and on exception;
\* predict then returns the result or propagates the exception.
ReleaseLock(t) ==
    /\ ocrPc[t] \in {"exit_return", "exit_raise"}
    /\ ocrLock' = FALSE
    /\ ocrLog' = Append(ocrLog, IF ocrPc[t] = "exit_return" THEN "returned" ELSE "raised")
    /\ ocrPc' = [ocrPc EXCEPT ![t] = "idle"]
    /\ UNCHANGED <<ocrActive, ocrCallsLeft, resolveVars, commonVars, checklistVars, jobVars, callVars>>

NextOcr ==
    \E t \in OcrThreads :
        \/ CallPredict(t)
        \/ AcquireLock(t)
        \/ EnterBackend(t)
        \/ BackendReturns(t)
        \/ BackendRaises(t)
        \/ ReleaseLock(t)

\* Fairness: a thread that can take a step of predict takes one, and a backend
\* call ends (returns or raises).  Calling predict at all is not forced.
OcrFairness ==
    \A t \in OcrThreads :
        /\ WF_vars(AcquireLock(t))
        /\ WF_vars(EnterBackend(t))
        /\ WF_vars(BackendReturns(t) \/ BackendRaises(t))
        /\ WF_vars(ReleaseLock(t))

SpecOcr == InitOcr /\ [][NextOcr]_vars /\ OcrFairness

----------------------------------------------------------------------------
\* gradio_app.py : JobStore.  A JobState is a mutable object shared by
\* reference: jobHeap[id] is the object, _jobs holds the ids whose object is
\* in the map (the key is always the object's job_id), and a local `job` of a
\* thread is an Optional id.  Entering a `with self._lock` block and running
\* its body are separate steps; the lock is released by the step that leaves
\* the block.

ClientThread(c) == <<"client", c>>
WorkerThread(w) == <<"worker", w>>
JobDecision == {"accepted", "denied"}

\* uuid4().hex: an id no other job has; time.time(): the allocation order.
NextJobId == Cardinality(DOMAIN jobHeap) + 1

\* A job id no JobState has.
UnknownJobId == 0

\* The job ids a caller can pass: those of the jobs created so far, or another.
KnownJobIds == DOMAIN jobHeap \cup {UnknownJobId}

\* Thread c starts its call: the threads before it have started theirs.
CanCall(c) == clients[c].pc = "idle" /\ (IF c = 1 THEN TRUE ELSE clients[c - 1].pc # "idle")

\* JobState(job_id=..., status="queued", submitted_at=..., payload=...).
NewJobState(job_id) ==
    [job_id |-> job_id, status |-> "queued", submitted_at |-> job_id,
     payload |-> "payload", started_at |-> None, completed_at |-> None,
     result |-> None, decision |-> None]

\* What _process_job returns, and the JobResult built from an exception.
ProcessedResult == [label_info |-> Some("label_info"), checklist |-> Some("checklist"), error |-> None]
ErrorResult == [label_info |-> None, checklist |-> None, error |-> Some("str(exc)")]

\* Mutant: the first update sets started_at but not the status.
RunningChangesWithoutStatus == <<<<"started_at", Some("time")>>>>

\* The keyword arguments of the worker's three _update_job calls, in order.
RunningChanges == <<<<"status", "running">>, <<"started_at", Some("time")>>>>
CompletedChanges == <<<<"status", "completed">>, <<"completed_at", Some("time")>>, <<"result", Some(ProcessedResult)>>>>
FailedChanges == <<<<"status", "failed">>, <<"completed_at", Some("time")>>, <<"result", Some(ErrorResult)>>>>

\* setattr(job, key, value)
Setattr(heap, job_id, key, value) == [heap EXCEPT ![job_id] = [@ EXCEPT ![key] = value]]

\* self._jobs.get(job_id)
JobsGet(job_id) == IF job_id \in _jobs THEN Some(job_id) ELSE None

SetClient(c, pc, job_id, job_ids, job, listed) ==
    clients' = [clients EXCEPT ![c] = [pc |-> pc, job_id |-> job_id, job_ids |-> job_ids, job |-> job, listed |-> listed, seen |-> <<>>]]

SetClientPc(c, pc) == clients' = [clients EXCEPT ![c].pc = pc]

\* JobStore.__init__: empty map, empty queue, free lock, worker started.
InitJobStore ==
    /\ jobHeap = <<>>
    /\ _jobs = {}
    /\ _queue = <<>>
    /\ _lock = None
    /\ clients = [c \in Clients |-> IdleClient]
    /\ workers = [w \in Workers |-> IdleWorker]
    /\ processed = <<>>
    /\ ResolveIdle
    /\ CommonIdle
    /\ ChecklistIdle
    /\ OcrIdle
    /\ CallIdle

\* submit, lines 88-94: the JobState is built before the lock is taken.
SubmitCreate(c) ==
    /\ CanCall(c)
    /\ jobHeap' = jobHeap @@ (NextJobId :> NewJobState(NextJobId))
    /\ SetClient(c, "submit_lock", NextJobId, <<>>, Some(NextJobId), <<>>)
    /\ UNCHANGED <<_jobs, _queue, _lock, workers, processed, notJobVars>>

\* submit, line 95: with self._lock.
SubmitAcquire(c) ==
    /\ clients[c].pc = "submit_lock"
    /\ _lock = None
    /\ _lock' = ClientThread(c)
    /\ SetClientPc(c, "submit_insert")
    /\ UNCHANGED <<jobHeap, _jobs, _queue, workers, processed, notJobVars>>

\* submit, line 96: self._jobs[job_id] = job, and the block ends.
SubmitInsert(c) ==
    /\ clients[c].pc = "submit_insert"
    /\ _jobs' = _jobs \cup {clients[c].job_id}
    /\ _lock' = None
    /\ SetClientPc(c, "submit_put")
    /\ UNCHANGED <<jobHeap, _queue, workers, processed, notJobVars>>

\* submit, line 97: self._queue.put(job_id) on an unbounded Queue.
SubmitPut(c) ==
    /\ clients[c].pc = "submit_put"
    /\ _queue' = Append(_queue, clients[c].job_id)
    /\ SetClientPc(c, "submit_return")
    /\ UNCHANGED <<jobHeap, _jobs, _lock, workers, processed, notJobVars>>

\* get, line 100: called with any job id.
GetCall(c) ==
    /\ CanCall(c)
    /\ \E job_id \in KnownJobIds : SetClient(c, "get_lock", job_id, <<>>, None, <<>>)
    /\ UNCHANGED <<jobHeap, _jobs, _queue, _lock, workers, processed, notJobVars>>

\* get, line 101: with self._lock.
GetAcquire(c) ==
    /\ clients[c].pc = "get_lock"
    /\ _lock = None
    /\ _lock' = ClientThread(c)
    /\ SetClientPc(c, "get_read")
    /\ UNCHANGED <<jobHeap, _jobs, _queue, workers, processed, notJobVars>>

\* get, line 102: return self._jobs.get(job_id) leaves the block.
GetRead(c) ==
    /\ clients[c].pc = "get_read"
    /\ clients' = [clients EXCEPT ![c].pc = "get_return", ![c].job = JobsGet(clients[c].job_id)]
    /\ _lock' = None
    /\ UNCHANGED <<jobHeap, _jobs, _queue, workers, processed, notJobVars>>

\* The job_ids lists a caller passes: its session's ids, in submission order.
JobIdLists ==
    {ids \in UNION {[1..n -> DOMAIN jobHeap] : n \in 0..Cardinality(DOMAIN jobHeap)} :
        \A i, j \in DOMAIN ids : i < j => ids[i] < ids[j]}

RemoveAt(seq, i) == SubSeq(seq, 1, i - 1) \o SubSeq(seq, i + 1, Len(seq))

\* sorted(jobs, key=lambda job: job.submitted_at, reverse=True): stable.
RECURSIVE SortedBySubmittedAtReverse(_)
SortedBySubmittedAtReverse(jobs) ==
    IF jobs = <<>> THEN <<>>
    ELSE LET first == CHOOSE i \in DOMAIN jobs : \A j \in DOMAIN jobs :
                          \/ jobHeap[jobs[i]].submitted_at > jobHeap[jobs[j]].submitted_at
                          \/ jobHeap[jobs[i]].submitted_at = jobHeap[jobs[j]].submitted_at /\ i <= j
         IN <<jobs[first]>> \o SortedBySubmittedAtReverse(RemoveAt(jobs, first))

\* list_jobs, line 104.
ListJobsCall(c) ==
    /\ CanCall(c)
    /\ \E job_ids \in JobIdLists : SetClient(c, "list_lock", 0, job_ids, None, <<>>)
    /\ UNCHANGED <<jobHeap, _jobs, _queue, _lock, workers, processed, notJobVars>>

\* list_jobs, line 105: with self._lock.
ListJobsAcquire(c) ==
    /\ clients[c].pc = "list_lock"
    /\ _lock = None
    /\ _lock' = ClientThread(c)
    /\ SetClientPc(c, "list_read")
    /\ UNCHANGED <<jobHeap, _jobs, _queue, workers, processed, notJobVars>>

\* list_jobs, line 106: the comprehension over job_ids, and the block ends.
ListJobsRead(c) ==
    /\ clients[c].pc = "list_read"
    /\ clients' = [clients EXCEPT ![c].pc = "list_sort",
                                  ![c].listed = SelectSeq(clients[c].job_ids, LAMBDA job_id : job_id \in _jobs)]
    /\ _lock' = None
    /\ UNCHANGED <<jobHeap, _jobs, _queue, workers, processed, notJobVars>>

\* list_jobs, line 107: the sort, outside the lock.
ListJobsSort(c) ==
    /\ clients[c].pc = "list_sort"
    /\ clients' = [clients EXCEPT ![c].pc = "list_return",
                                  ![c].listed = SortedBySubmittedAtReverse(clients[c].listed)]
    /\ UNCHANGED <<jobHeap, _jobs, _queue, _lock, workers, processed, notJobVars>>

\* decide, line 115.
DecideCall(c) ==
    /\ CanCall(c)
    /\ \E job_id \in KnownJobIds : SetClient(c, "decide_lock", job_id, <<>>, None, <<>>)
    /\ UNCHANGED <<jobHeap, _jobs, _queue, _lock, workers, processed, notJobVars>>

\* decide, line 120: with self._lock.
DecideAcquire(c) ==
    /\ clients[c].pc = "decide_lock"
    /\ _lock = None
    /\ _lock' = ClientThread(c)
    /\ SetClientPc(c, "decide_pop")
    /\ UNCHANGED <<jobHeap, _jobs, _queue, workers, processed, notJobVars>>

\* Mutant: decide looks the job up and leaves it in the map.
DecideGetWithoutPop(c) ==
    /\ clients[c].pc = "decide_pop"
    /\ clients' = [clients EXCEPT ![c].pc = IF clients[c].job_id \in _jobs THEN "decide_set" ELSE "decide_return",
                                  ![c].job = JobsGet(clients[c].job_id)]
    /\ _lock' = None
    /\ UNCHANGED <<jobHeap, _jobs, _queue, workers, processed, notJobVars>>

\* decide, lines 121-123: job = self._jobs.pop(job_id, None); None returns.
DecidePop(c) ==
    /\ clients[c].pc = "decide_pop"
    /\ clients' = [clients EXCEPT ![c].pc = IF clients[c].job_id \in _jobs THEN "decide_set" ELSE "decide_return",
                                  ![c].job = JobsGet(clients[c].job_id)]
    /\ _jobs' = _jobs \ {clients[c].job_id}
    /\ _lock' = None
    /\ UNCHANGED <<jobHeap, _queue, workers, processed, notJobVars>>

\* decide, lines 124-134: job.decision = decision, outside the lock; the
\* image files are then unlinked, which no JobStore state records.
DecideSetDecision(c) ==
    /\ clients[c].pc = "decide_set"
    /\ \E decision \in JobDecision :
           jobHeap' = Setattr(jobHeap, Get(clients[c].job), "decision", Some(decision))
    /\ SetClientPc(c, "decide_return")
    /\ UNCHANGED <<_jobs, _queue, _lock, workers, processed, notJobVars>>

\* load_job, lines 589-596: the caller of get reads job.status of the job it
\* was handed, holding no lock; only a completed job is read further.
LoadJobReadStatus(c) ==
    /\ clients[c].pc = "get_return"
    /\ clients[c].job # None
    /\ clients' = [clients EXCEPT ![c].pc = IF jobHeap[Get(clients[c].job)].status = "completed"
                                              THEN "load_result" ELSE "load_return",
                                  ![c].seen = <<jobHeap[Get(clients[c].job)].status>>]
    /\ UNCHANGED <<jobHeap, _jobs, _queue, _lock, workers, processed, notJobVars>>

\* load_job, line 600: result = job.result.
LoadJobReadResult(c) ==
    /\ clients[c].pc = "load_result"
    /\ clients' = [clients EXCEPT ![c].pc = "load_return",
                                  ![c].seen = Append(@, jobHeap[Get(clients[c].job)].result)]
    /\ UNCHANGED <<jobHeap, _jobs, _queue, _lock, workers, processed, notJobVars>>

\* The return statement of submit, get, list_jobs, decide or load_job.
ClientReturn(c) ==
    /\ clients[c].pc \in {"submit_return", "get_return", "list_return", "decide_return", "load_return"}
    /\ clients' = [clients EXCEPT ![c] = [IdleClient EXCEPT !.pc = "done"]]
    /\ UNCHANGED <<jobHeap, _jobs, _queue, _lock, workers, processed, notJobVars>>

SetWorker(w, pc, job_id, job, changes, next) ==
    workers' = [workers EXCEPT ![w] = [pc |-> pc, job_id |-> job_id, job |-> job, changes |-> changes, next |-> next]]

\* _worker_loop, line 146: job_id = self._queue.get() blocks on an empty queue.
WorkerDequeue(w) ==
    /\ workers[w].pc = "dequeue"
    /\ _queue # <<>>
    /\ _queue' = Tail(_queue)
    /\ SetWorker(w, "get_lock", Head(_queue), None, <<>>, "dequeue")
    /\ UNCHANGED <<jobHeap, _jobs, _lock, clients, processed, notJobVars>>

\* _worker_loop, line 147: self.get(job_id) enters its with block.
WorkerGetAcquire(w) ==
    /\ workers[w].pc = "get_lock"
    /\ _lock = None
    /\ _lock' = WorkerThread(w)
    /\ workers' = [workers EXCEPT ![w].pc = "get_read"]
    /\ UNCHANGED <<jobHeap, _jobs, _queue, clients, processed, notJobVars>>

\* _worker_loop, lines 147-150: get returns; a missing job makes the loop
\* continue, otherwise the worker calls _update_job(status="running", ...).
WorkerGetRead(w) ==
    /\ workers[w].pc = "get_read"
    /\ _lock' = None
    /\ IF workers[w].job_id \in _jobs
       THEN SetWorker(w, "update_lock", workers[w].job_id, Some(workers[w].job_id), RunningChanges, "call_process")
       ELSE workers' = [workers EXCEPT ![w] = IdleWorker]
    /\ UNCHANGED <<jobHeap, _jobs, _queue, clients, processed, notJobVars>>

\* _update_job, line 137: with self._lock.
UpdateJobAcquire(w) ==
    /\ workers[w].pc = "update_lock"
    /\ _lock = None
    /\ _lock' = WorkerThread(w)
    /\ workers' = [workers EXCEPT ![w].pc = "update_lookup"]
    /\ UNCHANGED <<jobHeap, _jobs, _queue, clients, processed, notJobVars>>

\* The worker's position after an _update_job call: _process_job after the
\* first, the top of the loop after the one that ends the job.
AfterUpdate(w) ==
    IF workers[w].next = "dequeue" THEN IdleWorker
    ELSE [workers[w] EXCEPT !.pc = workers[w].next, !.changes = <<>>]

\* _update_job, lines 138-140: a job no longer in the map returns at once.
UpdateJobLookup(w) ==
    /\ workers[w].pc = "update_lookup"
    /\ IF workers[w].job_id \in _jobs
       THEN /\ workers' = [workers EXCEPT ![w].pc = "update_setattr"]
            /\ UNCHANGED _lock
       ELSE /\ workers' = [workers EXCEPT ![w] = AfterUpdate(w)]
            /\ _lock' = None
    /\ UNCHANGED <<jobHeap, _jobs, _queue, clients, processed, notJobVars>>

\* _update_job, lines 141-142: one setattr of the loop over changes.items().
UpdateJobSetattr(w) ==
    /\ workers[w].pc = "update_setattr"
    /\ workers[w].changes # <<>>
    /\ jobHeap' = Setattr(jobHeap, workers[w].job_id, Head(workers[w].changes)[1], Head(workers[w].changes)[2])
    /\ workers' = [workers EXCEPT ![w].changes = Tail(@)]
    /\ UNCHANGED <<_jobs, _queue, _lock, clients, processed, notJobVars>>

\* Mutant: the worker keeps the lock after the update, over _process_job.
UpdateJobReturnsHoldingLock(w) ==
    /\ workers[w].pc = "update_setattr"
    /\ workers[w].changes = <<>>
    /\ _lock' = IF workers[w].next = "dequeue" THEN None ELSE _lock
    /\ workers' = [workers EXCEPT ![w] = AfterUpdate(w)]
    /\ UNCHANGED <<jobHeap, _jobs, _queue, clients, processed, notJobVars>>

\* _update_job, line 142: the loop is over and the with block ends.
UpdateJobRelease(w) ==
    /\ workers[w].pc = "update_setattr"
    /\ workers[w].changes = <<>>
    /\ _lock' = None
    /\ workers' = [workers EXCEPT ![w] = AfterUpdate(w)]
    /\ UNCHANGED <<jobHeap, _jobs, _queue, clients, processed, notJobVars>>

\* _worker_loop, line 152: _process_job(job.payload) is entered.
ProcessJobStarts(w) ==
    /\ workers[w].pc = "call_process"
    /\ processed' = Append(processed, Get(workers[w].job))
    /\ workers' = [workers EXCEPT ![w].pc = "processing"]
    /\ UNCHANGED <<jobHeap, _jobs, _queue, _lock, clients, notJobVars>>

\* _worker_loop, lines 152-158: _process_job returned a JobResult.
ProcessJobReturns(w) ==
    /\ workers[w].pc = "processing"
    /\ workers' = [workers EXCEPT ![w].pc = "update_lock", ![w].changes = CompletedChanges, ![w].next = "dequeue"]
    /\ UNCHANGED <<jobHeap, _jobs, _queue, _lock, clients, processed, notJobVars>>

\* Mutant: the exception ends the worker thread.
ProcessJobRaisesAndWorkerStops(w) ==
    /\ workers[w].pc = "processing"
    /\ workers' = [workers EXCEPT ![w].pc = "stopped"]
    /\ UNCHANGED <<jobHeap, _jobs, _queue, _lock, clients, processed, notJobVars>>

\* _worker_loop, lines 159-165: _process_job raised an Exception.
ProcessJobRaises(w) ==
    /\ workers[w].pc = "processing"
    /\ workers' = [workers EXCEPT ![w].pc = "update_lock", ![w].changes = FailedChanges, ![w].next = "dequeue"]
    /\ UNCHANGED <<jobHeap, _jobs, _queue, _lock, clients, processed, notJobVars>>

ClientStep(c) ==
    \/ SubmitCreate(c) \/ SubmitAcquire(c) \/ SubmitInsert(c) \/ SubmitPut(c)
    \/ GetCall(c) \/ GetAcquire(c) \/ GetRead(c)
    \/ LoadJobReadStatus(c) \/ LoadJobReadResult(c)
    \/ ListJobsCall(c) \/ ListJobsAcquire(c) \/ ListJobsRead(c) \/ ListJobsSort(c)
    \/ DecideCall(c) \/ DecideAcquire(c) \/ DecidePop(c) \/ DecideSetDecision(c)
    \/ ClientReturn(c)

WorkerStep(w) ==
    \/ WorkerDequeue(w) \/ WorkerGetAcquire(w) \/ WorkerGetRead(w)
    \/ UpdateJobAcquire(w) \/ UpdateJobLookup(w) \/ UpdateJobSetattr(w) \/ UpdateJobRelease(w)
    \/ ProcessJobStarts(w) \/ ProcessJobReturns(w) \/ ProcessJobRaises(w)

NextJobStore ==
    \/ \E c \in DOMAIN clients : ClientStep(c)
    \/ \E w \in DOMAIN workers : WorkerStep(w)

SpecJobStore == InitJobStore /\ [][NextJobStore]_vars

\* A fair scheduler: the worker thread, and every caller that has begun a
\* call, takes its next step when it can go on taking it.  A caller is not
\* obliged to begin a call, and _process_job, once entered, returns or raises.
JobStoreFairness ==
    /\ \A w \in Workers : WF_vars(WorkerStep(w))
    /\ \A c \in Clients : WF_vars(clients[c].pc # "idle" /\ ClientStep(c))

SpecJobStoreFair == SpecJobStore /\ JobStoreFairness

----------------------------------------------------------------------------
\* ocr/__init__.py : extract_label_info_with_spans, one run followed step by
\* step.  What the vision model and the OCR backend return is chosen freely.

\* rules/beverage_type_presence.py : beverage_type_from_qwen.  Hint texts are
\* atoms; HintNormalized is value.strip().lower() with "-" and "_" replaced by
\* a space.
HintNormalized(value) ==
    CASE value = "Wine" -> "wine"
      [] value = " Sparkling Wine " -> "sparkling wine"
      [] value = "wine_cooler" -> "wine cooler"
      [] value = "Distilled-Spirits" -> "distilled spirits"
      [] value = "distilled_spirit" -> "distilled spirit"
      [] value = "SPIRITS" -> "spirits"
      [] value = "spirit" -> "spirit"
      [] value = "white spirit" -> "white spirit"
      [] value = "swine" -> "swine"
      [] value = "Beer" -> "beer"
      [] value = "   " -> ""
      [] OTHER -> value

QwenHintTexts == {"Wine", " Sparkling Wine ", "wine_cooler", "Distilled-Spirits", "distilled_spirit", "SPIRITS", "spirit", "white spirit", "swine", "Beer", "   ", ""}

\* Mutant: a hint that is not recognised is taken for distilled spirits.
beverage_type_from_qwen_guessing(value) ==
    IF IsNone(value) THEN None
    ELSE LET normalized == HintNormalized(Get(value)) IN
         IF normalized = "" THEN None
         ELSE IF normalized \in {"wine", "sparkling wine", "wine cooler"}
         THEN Some([beverage_type |-> "wine", confidence |-> [num |-> 1, den |-> 1]])
         ELSE Some([beverage_type |-> "distilled_spirits", confidence |-> [num |-> 1, den |-> 1]])

\* normalized == "wine" or " wine" in normalized or startswith("wine"); then
\* "distilled spirit(s)" in normalized; then normalized in {"spirits", "spirit"}.
beverage_type_from_qwen(value) ==
    IF IsNone(value) THEN None
    ELSE LET normalized == HintNormalized(Get(value)) IN
         IF normalized = "" THEN None
         ELSE IF normalized \in {"wine", "sparkling wine", "wine cooler"}
         THEN Some([beverage_type |-> "wine", confidence |-> [num |-> 1, den |-> 1]])
         ELSE IF normalized \in {"distilled spirits", "distilled spirit"}
         THEN Some([beverage_type |-> "distilled_spirits", confidence |-> [num |-> 1, den |-> 1]])
         ELSE IF normalized \in {"spirits", "spirit"}
         THEN Some([beverage_type |-> "distilled_spirits", confidence |-> [num |-> 1, den |-> 1]])
         ELSE None

\* _resolve_fields: every label field resolved, beverage_type attached.
_resolve_fields(candidates, beverage_type) ==
    LabelInfo([f \in LabelFieldNames |-> _resolve_field(candidates[f])], beverage_type)

\* What an OCR pass can return: spans always carry text.
VodkaSpan == [text_nonempty |-> TRUE, wine |-> 0, spirits |-> 1]
MerlotSpan == [text_nonempty |-> TRUE, wine |-> 1, spirits |-> 0]
PlainSpan == [text_nonempty |-> TRUE, wine |-> 0, spirits |-> 0]
OcrSpanLists == {<<>>, <<VodkaSpan>>, <<PlainSpan, MerlotSpan>>, <<PlainSpan>>}

\* What build_field_candidates can yield for the located fields.
LocatedCandidate(text, bbox, image_index) ==
    Some([value |-> text,
          confidence |-> Some(100),
          evidence |-> Some(text),
          normalized |-> Some([EmptyDict EXCEPT
                                 !.bbox = Some(bbox),
                                 !.image_index = Some(image_index),
                                 !.verification = Some([kind |-> "TokenVerification", token_count |-> Some(1), matched_token_count |-> Some(1)])]),
          numeric_value |-> None,
          unit |-> None])

UnlocatedCandidate(text) ==
    Some([value |-> text,
          confidence |-> Some(0),
          evidence |-> Some(text),
          normalized |-> Some([EmptyDict EXCEPT
                                 !.verification = Some([kind |-> "TokenVerification", token_count |-> Some(1), matched_token_count |-> Some(0)])]),
          numeric_value |-> None,
          unit |-> None])

NoCandidates == [f \in LabelFieldNames |-> None]

PipelineCandidateMaps ==
    {NoCandidates,
     [NoCandidates EXCEPT !["brand_name"] = LocatedCandidate("OLD TOM", <<100, 100, 300, 200>>, 0),
                          !["class_type"] = LocatedCandidate("GIN", <<120, 220, 300, 280>>, 0),
                          !["alcohol_content"] = LocatedCandidate("45%", <<140, 300, 280, 340>>, 0)],
     [NoCandidates EXCEPT !["brand_name"] = LocatedCandidate("OLD TOM", <<100, 100, 300, 200>>, 0),
                          !["class_type"] = UnlocatedCandidate("GIN"),
                          !["alcohol_content"] = LocatedCandidate("45%", <<140, 300, 280, 340>>, 0)]}

PipelineImageSizes == {<<<<1000, 800>>>>, <<<<400, 800>>>>}

InitExtract ==
    /\ \E image_sizes \in PipelineImageSizes, hint \in Optional(QwenHintTexts) :
         pipeline = Some([pc |-> "first_pass",
                          image_sizes |-> image_sizes,
                          qwen_beverage_type |-> hint,
                          paddle_spans |-> None,
                          enhanced_spans |-> None,
                          beverage_prediction |-> None,
                          combined_spans |-> <<>>,
                          label_info |-> None,
                          spans |-> None,
                          error |-> None,
                          prediction_source |-> None,
                          finding |-> None])
    /\ callIn = None
    /\ callOut = None
    /\ ResolveIdle
    /\ CommonIdle
    /\ ChecklistIdle
    /\ OcrIdle
    /\ JobsIdle

\* Lines 327-334: the first pass with DEFAULT_OCR_OPTIONS, then the hint.
FirstOcrPass ==
    /\ pipeline # None
    /\ Get(pipeline).pc = "first_pass"
    /\ \E paddle_spans \in OcrSpanLists :
         pipeline' = Some([Get(pipeline) EXCEPT
                             !.pc = "enhance_check",
                             !.paddle_spans = Some(paddle_spans),
                             !.beverage_prediction = beverage_type_from_qwen(Get(pipeline).qwen_beverage_type),
                             !.combined_spans = paddle_spans])
    /\ UNCHANGED <<callIn, callOut, notCallVars>>

\* Mutant: the enhanced pass is run whatever the first pass returned.
NeedsEnhancedPassAlways(p) == TRUE

\* Line 337: `if not combined_spans`.
NeedsEnhancedPass(p) == p.combined_spans = <<>>

\* Lines 338-345: the pass over the enhanced, geometry-safe variants.
EnhancedOcrPass ==
    /\ pipeline # None
    /\ Get(pipeline).pc = "enhance_check"
    /\ NeedsEnhancedPass(Get(pipeline))
    /\ \E enhanced_spans \in OcrSpanLists :
         pipeline' = Some([Get(pipeline) EXCEPT
                             !.pc = "empty_check",
                             !.enhanced_spans = Some(enhanced_spans),
                             !.combined_spans = enhanced_spans])
    /\ UNCHANGED <<callIn, callOut, notCallVars>>

SkipEnhancedPass ==
    /\ pipeline # None
    /\ Get(pipeline).pc = "enhance_check"
    /\ ~NeedsEnhancedPass(Get(pipeline))
    /\ pipeline' = Some([Get(pipeline) EXCEPT !.pc = "empty_check"])
    /\ UNCHANGED <<callIn, callOut, notCallVars>>

\* Lines 347-348.
RaiseNoText ==
    /\ pipeline # None
    /\ Get(pipeline).pc = "empty_check"
    /\ Get(pipeline).combined_spans = <<>>
    /\ pipeline' = Some([Get(pipeline) EXCEPT
                           !.pc = "raised",
                           !.error = Some("RuntimeError: OCR completed but no text was detected.")])
    /\ UNCHANGED <<callIn, callOut, notCallVars>>

\* Lines 349-359.
BuildLabelInfo ==
    /\ pipeline # None
    /\ Get(pipeline).pc = "empty_check"
    /\ Get(pipeline).combined_spans # <<>>
    /\ \E candidates_by_field \in PipelineCandidateMaps :
         LET p == Get(pipeline)
             label_info == _resolve_fields(candidates_by_field, p.beverage_prediction)
         IN pipeline' = Some([p EXCEPT
                                !.pc = "returned",
                                !.label_info = Some(_apply_field_of_vision(label_info, candidates_by_field, p.image_sizes)),
                                !.spans = Some(p.combined_spans)])
    /\ UNCHANGED <<callIn, callOut, notCallVars>>

\* The applicant's selection seen by the rule.
SelectedBeverageTypes ==
    {None} \cup {Some([beverage_type |-> selected, source_of_product |-> None]) : selected \in {None, Some("wine"), Some("distilled_spirits")}}

\* beverage_type_presence on the extraction result: the rule is given the
\* returned label and the returned spans.
EvaluateBeverageTypePresence ==
    /\ pipeline # None
    /\ Get(pipeline).pc = "returned"
    /\ Get(pipeline).finding = None
    /\ \E application_fields \in SelectedBeverageTypes :
         LET p == Get(pipeline)
             context == [label_info |-> Get(p.label_info), application_fields |-> application_fields, spans |-> p.spans, images |-> None]
         IN pipeline' = Some([p EXCEPT
                                !.prediction_source = Some([source |-> beverage_type_prediction_source(context), selected |-> application_fields]),
                                !.finding = Some(beverage_type_presence(context))])
    /\ UNCHANGED <<callIn, callOut, notCallVars>>

NextExtract ==
    \/ FirstOcrPass
    \/ EnhancedOcrPass
    \/ SkipEnhancedPass
    \/ RaiseNoText
    \/ BuildLabelInfo
    \/ EvaluateBeverageTypePresence

SpecExtract == InitExtract /\ [][NextExtract]_vars

----------------------------------------------------------------------------
\* rules/field_of_vision.py called on its own: _field_of_vision_metadata,
\* _apply_field_of_vision and field_of_vision_check over chosen candidates,
\* image sizes and label fields.

FovVerification == Some([kind |-> "TokenVerification", token_count |-> Some(1), matched_token_count |-> Some(1)])

FovCandidate(normalized) ==
    Some([value |-> "OLD TOM", confidence |-> Some(100), evidence |-> Some("OLD TOM"), normalized |-> normalized, numeric_value |-> None, unit |-> None])

\* The shapes one candidate can take around a given box.
FovCandidates(bboxes) ==
    {None,
     FovCandidate(None),
     FovCandidate(Some(EmptyDict)),
     FovCandidate(Some([EmptyDict EXCEPT !.verification = FovVerification])),
     FovCandidate(Some([EmptyDict EXCEPT !.bbox = Some(<<100, 100, 300>>), !.image_index = Some(0)]))}
    \cup {FovCandidate(Some([EmptyDict EXCEPT !.bbox = Some(bbox), !.image_index = image_index, !.verification = FovVerification])) :
            bbox \in bboxes, image_index \in {None, Some(-1), Some(0), Some(1)}}

FovCandidateMaps ==
    [brand_name : FovCandidates({<<100, 100, 300, 200>>, <<100, 100, 500, 200>>, <<100, 100, 501, 200>>}),
     class_type : FovCandidates({<<120, 220, 300, 280>>}) \ {FovCandidate(None), FovCandidate(Some(EmptyDict))},
     alcohol_content : FovCandidates({<<140, 300, 280, 340>>}) \ {FovCandidate(None), FovCandidate(Some(EmptyDict))}]

FovImageSizes == {<<>>, <<<<1000, 800>>>>, <<<<1000, 800>>, <<3000, 2000>>>>, <<<<0, 0>>>>}

\* A label whose 20 fields all differ, so that a carried-over field is told
\* from any other.
FovField(f, normalized) ==
    [value |-> Some(f),
     confidence |-> Some(100),
     evidence |-> Some(f),
     source |-> "qwen",
     status |-> IF f = "class_type" THEN "needs_review" ELSE "verified",
     normalized |-> normalized,
     numeric_value |-> IF f = "alcohol_content" THEN Some(45) ELSE None,
     unit |-> IF f = "alcohol_content" THEN Some("%") ELSE None]

FovStaleMetadata == [status |-> "pass", reason |-> None, image_index |-> Some(0), span_ratio |-> Some(1000), bbox_union |-> Some(<<0, 0, 100, 100>>)]

FovNormalizedValues ==
    {None,
     Some(EmptyDict),
     Some([EmptyDict EXCEPT !.bbox = Some(<<100, 100, 300, 200>>), !.image_index = Some(0), !.verification = FovVerification]),
     Some([EmptyDict EXCEPT !.verification = FovVerification, !.field_of_vision = Some(FovStaleMetadata)])}

FovLabelInfos ==
    {LabelInfo([f \in LabelFieldNames |->
                  FovField(f, IF f \in {"brand_name", "class_type", "alcohol_content"} THEN normalized
                              ELSE Some([EmptyDict EXCEPT !.verification = FovVerification]))],
               classification) :
        normalized \in FovNormalizedValues, classification \in HintClassifications}

InitFieldOfVision ==
    /\ \E candidates \in FovCandidateMaps, image_sizes \in FovImageSizes, label_info \in FovLabelInfos :
         callIn = Some([candidates |-> candidates, image_sizes |-> image_sizes, label_info |-> label_info])
    /\ callOut = None
    /\ pipeline = None
    /\ ResolveIdle
    /\ CommonIdle
    /\ ChecklistIdle
    /\ OcrIdle
    /\ JobsIdle

FovResult(fn, metadata, label_info, finding) == [fn |-> fn, metadata |-> metadata, label_info |-> label_info, finding |-> finding]

FieldOfVisionMetadata ==
    /\ callIn # None
    /\ callOut = None
    /\ callOut' = Some(FovResult("_field_of_vision_metadata", Some(_field_of_vision_metadata(Get(callIn).candidates, Get(callIn).image_sizes)), None, None))
    /\ UNCHANGED <<callIn, pipeline, notCallVars>>

\* The function writes to no object reachable from its arguments: the
\* arguments are the same after the call.
ApplyFieldOfVision ==
    /\ callIn # None
    /\ callOut = None
    /\ callOut' = Some(FovResult("_apply_field_of_vision", None, Some(_apply_field_of_vision(Get(callIn).label_info, Get(callIn).candidates, Get(callIn).image_sizes)), None))
    /\ callIn' = callIn
    /\ UNCHANGED <<pipeline, notCallVars>>

\* The rule is evaluated on the label as extracted: with the metadata
\* attached, or on a label that never went through _apply_field_of_vision.
FieldOfVisionCheck ==
    /\ callIn # None
    /\ \/ /\ callOut = None
          /\ callOut' = Some(FovResult("field_of_vision_check", None, Some(Get(callIn).label_info),
                                       Some(field_of_vision_check([label_info |-> Get(callIn).label_info, application_fields |-> None, spans |-> None, images |-> None]))))
       \/ /\ callOut # None
          /\ Get(callOut).fn = "_apply_field_of_vision"
          /\ callOut' = Some([Get(callOut) EXCEPT
                                !.fn = "field_of_vision_check",
                                !.finding = Some(field_of_vision_check([label_info |-> Get(Get(callOut).label_info), application_fields |-> None, spans |-> None, images |-> None]))])
    /\ UNCHANGED <<callIn, pipeline, notCallVars>>

NextFieldOfVision ==
    \/ FieldOfVisionMetadata
    \/ ApplyFieldOfVision
    \/ FieldOfVisionCheck

SpecFieldOfVision == InitFieldOfVision /\ [][NextFieldOfVision]_vars

----------------------------------------------------------------------------
\* One checklist rule called on its own, on every context that matters to it.

RuleCallSources == SourcesOfProduct \cup {Some(<<>>), Some(<<"IMPORTED", "domestic">>)}

RuleCallApplicationFields ==
    {None} \cup {Some([beverage_type |-> None, source_of_product |-> source]) : source \in RuleCallSources}

RuleCallImages == ChecklistImages \cup {Some(<<[header_metrics |-> None]>>)}

BlankField == [value |-> Some(""), numeric_value |-> None, normalized |-> None]

WarningTextContexts ==
    {[label_info |-> LabelInfo([EmptyLabelFields EXCEPT !["warning_text"] = field], None),
      application_fields |-> None, spans |-> None, images |-> images] :
        field \in FieldVariants("warning_text") \cup {MissingField, BlankField}, images \in RuleCallImages}

CountryOfOriginContexts ==
    {[label_info |-> LabelInfo([EmptyLabelFields EXCEPT !["country_of_origin"] = field], None),
      application_fields |-> application_fields, spans |-> None, images |-> None] :
        field \in {MissingField, BlankField, TextField("PRODUCT OF FRANCE")},
        application_fields \in RuleCallApplicationFields}

GrapeVarietalsContexts ==
    {[label_info |-> LabelInfo([EmptyLabelFields EXCEPT !["grape_varietals"] = varietal, !["appellation_of_origin"] = appellation], classification),
      application_fields |-> application_fields, spans |-> None, images |-> None] :
        varietal \in FieldVariants("grape_varietals") \cup {MissingField, BlankField},
        appellation \in {MissingField, BlankField, TextField("NAPA VALLEY")},
        classification \in HintClassifications,
        application_fields \in RuleCallApplicationFields}

\* Spans whose keyword scores give no classification, wine at 15/27, wine at
\* 90/150 = 0.6, distilled spirits at 24/39, and spans without text.
BeverageTypeSpans ==
    {None, Some(<<>>),
     Some(<<[text_nonempty |-> FALSE, wine |-> 0, spirits |-> 0]>>),
     Some(<<[text_nonempty |-> TRUE, wine |-> 0, spirits |-> 0]>>),
     Some(<<[text_nonempty |-> TRUE, wine |-> 1, spirits |-> 1]>>),
     Some(<<[text_nonempty |-> TRUE, wine |-> 3, spirits |-> 3], [text_nonempty |-> TRUE, wine |-> 3, spirits |-> 2]>>),
     Some(<<[text_nonempty |-> TRUE, wine |-> 1, spirits |-> 2]>>)}

BeverageTypeClassifications ==
    HintClassifications
    \cup {Some([beverage_type |-> "wine", confidence |-> [num |-> 15, den |-> 27]]),
          Some([beverage_type |-> "distilled_spirits", confidence |-> [num |-> 36, den |-> 51]])}

BeverageTypePresenceContexts ==
    {[label_info |-> LabelInfo(EmptyLabelFields, classification),
      application_fields |-> application_fields, spans |-> spans, images |-> None] :
        classification \in BeverageTypeClassifications,
        application_fields \in {None} \cup {Some([beverage_type |-> selected, source_of_product |-> None]) :
                                                selected \in Optional(BeverageType)},
        spans \in BeverageTypeSpans}

InitRuleCall ==
    /\ \/ \E context \in WarningTextContexts : callIn = Some([rule |-> "warning_text", context |-> context])
       \/ \E context \in CountryOfOriginContexts : callIn = Some([rule |-> "country_of_origin_presence", context |-> context])
       \/ \E context \in GrapeVarietalsContexts : callIn = Some([rule |-> "grape_varietals", context |-> context])
       \/ \E context \in BeverageTypePresenceContexts : callIn = Some([rule |-> "beverage_type_presence", context |-> context])
    /\ callOut = None
    /\ pipeline = None
    /\ ResolveIdle
    /\ CommonIdle
    /\ ChecklistIdle
    /\ OcrIdle
    /\ JobsIdle

CallWarningText ==
    /\ callIn # None
    /\ callOut = None
    /\ Get(callIn).rule = "warning_text"
    /\ callOut' = Some(warning_text(Get(callIn).context))
    /\ UNCHANGED <<callIn, pipeline, notCallVars>>

CallCountryOfOriginPresence ==
    /\ callIn # None
    /\ callOut = None
    /\ Get(callIn).rule = "country_of_origin_presence"
    /\ callOut' = Some(country_of_origin_presence(Get(callIn).context))
    /\ UNCHANGED <<callIn, pipeline, notCallVars>>

CallGrapeVarietals ==
    /\ callIn # None
    /\ callOut = None
    /\ Get(callIn).rule = "grape_varietals"
    /\ callOut' = Some(grape_varietals(Get(callIn).context))
    /\ UNCHANGED <<callIn, pipeline, notCallVars>>

CallBeverageTypePresence ==
    /\ callIn # None
    /\ callOut = None
    /\ Get(callIn).rule = "beverage_type_presence"
    /\ callOut' = Some(beverage_type_presence(Get(callIn).context))
    /\ UNCHANGED <<callIn, pipeline, notCallVars>>

NextRuleCall ==
    \/ CallWarningText
    \/ CallCountryOfOriginPresence
    \/ CallGrapeVarietals
    \/ CallBeverageTypePresence

SpecRuleCall == InitRuleCall /\ [][NextRuleCall]_vars

----------------------------------------------------------------------------
\* classify_beverage_type called on its own.  A text block is kept with the
\* number of distinct _WINE_KEYWORDS and SPIRITS_CLASS_KEYWORDS that occur in
\* its upper-cased text.

MaxBlocks == 3

BlockTexts == {"VODKA", "Cabernet Sauvignon", "VODKA VODKA", "DISTILLED SPIRITS", "750 ML", "", "Merlot Pinot Chardonnay Riesling", "VODKA GIN RUM TEQUILA MEZCAL", "BRANDY WINE"}

\* Keywords of _WINE_KEYWORDS found in text.upper().
WineKeywordHits(text) ==
    CASE text = "Cabernet Sauvignon" -> 2
      [] text = "Merlot Pinot Chardonnay Riesling" -> 4
      [] text = "BRANDY WINE" -> 1
      [] OTHER -> 0

\* Keywords of SPIRITS_CLASS_KEYWORDS found in text.upper(): SPIRIT and
\* SPIRITS both occur in "DISTILLED SPIRITS".
SpiritsKeywordHits(text) ==
    CASE text = "VODKA" -> 1
      [] text = "VODKA VODKA" -> 1
      [] text = "DISTILLED SPIRITS" -> 2
      [] text = "VODKA GIN RUM TEQUILA MEZCAL" -> 5
      [] text = "BRANDY WINE" -> 1
      [] OTHER -> 0

TextBlock(text) == [text |-> text, text_nonempty |-> text # "", wine |-> WineKeywordHits(text), spirits |-> SpiritsKeywordHits(text)]

TextBlockLists == UNION {[1..n -> {TextBlock(t) : t \in BlockTexts}] : n \in 0..MaxBlocks}

InitClassify ==
    /\ \E text_blocks \in TextBlockLists : callIn = Some([text_blocks |-> text_blocks])
    /\ callOut = None
    /\ pipeline = None
    /\ ResolveIdle
    /\ CommonIdle
    /\ ChecklistIdle
    /\ OcrIdle
    /\ JobsIdle

ClassifyBeverageType ==
    /\ callIn # None
    /\ callOut = None
    /\ callOut' = Some([prediction |-> classify_beverage_type(Get(callIn).text_blocks)])
    /\ UNCHANGED <<callIn, pipeline, notCallVars>>

NextClassify == ClassifyBeverageType

SpecClassify == InitClassify /\ [][NextClassify]_vars

----------------------------------------------------------------------------
\* ocr/lines.py : _dedupe_lines.  A line is a text atom with an optional
\* confidence in hundredths; the dict is kept as the list of its entries in
\* insertion order.

MaxLines == 3

LineTexts == {"Foo!", "foo", "FOO", "!!!", "Bar"}

\* text.py : re.sub(r"[^A-Z0-9]+", "", text.upper()) on the texts above.
normalize_for_match(text) ==
    CASE text \in {"Foo!", "foo", "FOO"} -> "FOO"
      [] text = "Bar" -> "BAR"
      [] OTHER -> ""

OcrLines == [text : LineTexts, confidence : {None, Some(0), Some(30), Some(90)}]

\* `line.confidence or 0.0`
ConfidenceOrZero(line) == IF IsNone(line.confidence) THEN 0 ELSE Get(line.confidence)

\* Mutant: an incoming line replaces the kept one only when it scores higher.
IncomingReplacesOnlyIfHigher(incoming_score, existing_score) == incoming_score > existing_score

\* Line 317: `incoming_score >= existing_score`.
IncomingReplaces(incoming_score, existing_score) == incoming_score >= existing_score

\* The for loop: deduped is the dict so far.
RECURSIVE DedupeLoop(_, _)
DedupeLoop(lines, deduped) ==
    IF lines = <<>> THEN deduped
    ELSE LET line == Head(lines)
             key == normalize_for_match(line.text)
             at == {i \in 1..Len(deduped) : deduped[i].key = key}
         IN IF key = "" THEN DedupeLoop(Tail(lines), deduped)
            ELSE IF at = {} THEN DedupeLoop(Tail(lines), Append(deduped, [key |-> key, line |-> line]))
            ELSE LET i == CHOOSE i \in at : TRUE IN
                 IF IncomingReplaces(ConfidenceOrZero(line), ConfidenceOrZero(deduped[i].line))
                 THEN DedupeLoop(Tail(lines), [deduped EXCEPT ![i] = [key |-> key, line |-> line]])
                 ELSE DedupeLoop(Tail(lines), deduped)

\* list(deduped.values())
_dedupe_lines(lines) ==
    LET deduped == DedupeLoop(lines, <<>>) IN [i \in 1..Len(deduped) |-> deduped[i].line]

InitDedupe ==
    /\ \E lines \in UNION {[1..n -> OcrLines] : n \in 0..MaxLines} :
         callIn = Some([lines |-> lines])
    /\ callOut = None
    /\ pipeline = None
    /\ ResolveIdle
    /\ CommonIdle
    /\ ChecklistIdle
    /\ OcrIdle
    /\ JobsIdle

DedupeLines ==
    /\ callIn # None
    /\ callOut = None
    /\ callOut' = Some([deduped |-> _dedupe_lines(Get(callIn).lines), again |-> None])
    /\ UNCHANGED <<callIn, pipeline, notCallVars>>

\* _dedupe_lines applied to its own output.
DedupeAgain ==
    /\ callOut # None
    /\ Get(callOut).again = None
    /\ callOut' = Some([Get(callOut) EXCEPT !.again = Some(_dedupe_lines(Get(callOut).deduped))])
    /\ UNCHANGED <<callIn, pipeline, notCallVars>>

NextDedupe ==
    \/ DedupeLines
    \/ DedupeAgain

SpecDedupe == InitDedupe /\ [][NextDedupe]_vars

----------------------------------------------------------------------------
\* rules/warning_text.py : estimate_boldness and _fallback_without_peers.
\* BoldnessMetrics are kept as whole numbers: foreground_ratio in thousandths,
\* stroke_ratio in tenths, contrast in hundredths.  What _measure_metrics
\* yields for the header crop and for each peer crop is chosen freely; None
\* is a crop it rejects.

MaxPeers == 2

HeaderMetrics == [foreground_ratio : {10, 19, 20, 33}, stroke_ratio : {0, 29, 30, 33}, contrast : {14, 15, 50}]

PeerMetrics == [foreground_ratio : {0, 20, 40}, stroke_ratio : {0, 30, 60}, contrast : {50}]

\* statistics.median, doubled so that the mean of the two middle values of an
\* even-sized list stays whole.
median_doubled(values) ==
    LET sorted == SortSeq(values, LAMBDA a, b : a < b)
        n == Len(sorted)
    IN IF n % 2 = 1 THEN 2 * sorted[(n + 1) \div 2]
       ELSE sorted[n \div 2] + sorted[n \div 2 + 1]

\* Mutant: the fallback does not look at the contrast.
_fallback_without_peers_ignoring_contrast(metrics) ==
    [status |-> IF metrics.stroke_ratio >= 30 /\ metrics.foreground_ratio >= 20 THEN "pass" ELSE "needs_review",
     reason |-> Some("no_peer_spans")]

\* contrast >= 0.15 and stroke_ratio >= 3 and foreground_ratio >= 0.02
_fallback_without_peers(metrics) ==
    [status |-> IF metrics.contrast >= 15 /\ metrics.stroke_ratio >= 30 /\ metrics.foreground_ratio >= 20 THEN "pass" ELSE "needs_review",
     reason |-> Some("no_peer_spans")]

\* estimate_boldness on the measured crops: score >= 1.1 is compared exactly,
\* 10 * (2*h_fg * M_st + 2*h_st * M_fg) >= 22 * M_fg * M_st with doubled medians.
estimate_boldness(header_metrics, peer_crops) ==
    IF IsNone(header_metrics) THEN None
    ELSE LET peer_metrics == SelectSeq(peer_crops, LAMBDA metric : ~IsNone(metric)) IN
         IF peer_metrics = <<>> THEN Some(_fallback_without_peers(Get(header_metrics)))
         ELSE LET median_fg == median_doubled([i \in 1..Len(peer_metrics) |-> Get(peer_metrics[i]).foreground_ratio])
                  median_stroke == median_doubled([i \in 1..Len(peer_metrics) |-> Get(peer_metrics[i]).stroke_ratio])
                  header == Get(header_metrics)
              IN IF median_fg <= 0 \/ median_stroke <= 0
                 THEN Some([status |-> "needs_review", reason |-> Some("invalid_peer_metrics")])
                 ELSE Some([status |-> IF 10 * (2 * header.foreground_ratio * median_stroke + 2 * header.stroke_ratio * median_fg) >= 22 * median_fg * median_stroke
                                       THEN "pass" ELSE "needs_review",
                            reason |-> None])

InitBoldness ==
    /\ \E header_metrics \in Optional(HeaderMetrics),
          peer_crops \in UNION {[1..n -> Optional(PeerMetrics)] : n \in 0..MaxPeers} :
         callIn = Some([header_metrics |-> header_metrics, peer_crops |-> peer_crops])
    /\ callOut = None
    /\ pipeline = None
    /\ ResolveIdle
    /\ CommonIdle
    /\ ChecklistIdle
    /\ OcrIdle
    /\ JobsIdle

EstimateBoldness ==
    /\ callIn # None
    /\ callOut = None
    /\ callOut' = Some([boldness |-> estimate_boldness(Get(callIn).header_metrics, Get(callIn).peer_crops)])
    /\ UNCHANGED <<callIn, pipeline, notCallVars>>

NextBoldness == EstimateBoldness

SpecBoldness == InitBoldness /\ [][NextBoldness]_vars

----------------------------------------------------------------------------
\* rules/warning_text.py: _measure_metrics on a crop.  The crop is given by the
\* histogram of its pixels after ImageOps.grayscale and ImageOps.autocontrast
\* (either one grey level, or a range stretched to 0..255), and by the number
\* of pixels the edge filter marks above the edge threshold.

MaxPixels == 21

GrayLevels == <<0, 12, 13, 255>>

GrayLevelSet == {GrayLevels[i] : i \in 1..Len(GrayLevels)}

RECURSIVE CountUpTo(_, _)
CountUpTo(hist, i) == IF i = 0 THEN 0 ELSE hist[GrayLevels[i]] + CountUpTo(hist, i - 1)

RECURSIVE SumUpTo(_, _)
SumUpTo(hist, i) == IF i = 0 THEN 0 ELSE GrayLevels[i] * hist[GrayLevels[i]] + SumUpTo(hist, i - 1)

PixelCount(hist) == CountUpTo(hist, Len(GrayLevels))

\* sorted(pixels)[index]
SortedPixel(hist, index) ==
    GrayLevels[CHOOSE i \in 1..Len(GrayLevels) :
                   /\ CountUpTo(hist, i) > index
                   /\ CountUpTo(hist, i - 1) <= index]

AutocontrastImages ==
    {hist \in [GrayLevelSet -> 0..MaxPixels] :
        /\ PixelCount(hist) <= MaxPixels
        /\ \/ hist[0] > 0 /\ hist[255] > 0
           \/ Cardinality({level \in GrayLevelSet : hist[level] > 0}) <= 1}

\* (p95 - p5) / 255.0, in 255ths
_contrast_ratio(hist) ==
    IF PixelCount(hist) = 0 THEN 0
    ELSE SortedPixel(hist, (PixelCount(hist) * 95) \div 100)
           - SortedPixel(hist, (PixelCount(hist) * 5) \div 100)

\* a / b > c / d for b, d > 0, without forming the cross products
RECURSIVE FractionGreater(_, _, _, _)
FractionGreater(a, b, c, d) ==
    IF a \div b # c \div d THEN a \div b > c \div d
    ELSE IF a % b = 0 THEN FALSE
    ELSE IF c % d = 0 THEN TRUE
    ELSE FractionGreater(d, c % d, b, a % b)

\* The loop of _otsu_threshold from bin GrayLevels[i] on; an empty bin repeats
\* the variance of the bin before it and so never moves the threshold.  The
\* variance weight_background * weight_foreground * (difference of the means)^2
\* is kept as the fraction numerator/denominator.
RECURSIVE OtsuLoop(_, _, _, _, _, _, _)
OtsuLoop(hist, i, weight_background, sum_background, max_numerator, max_denominator, threshold) ==
    IF i > Len(GrayLevels) THEN threshold
    ELSE LET index == GrayLevels[i]
             weight == weight_background + hist[index]
             weight_foreground == PixelCount(hist) - weight
             background == sum_background + index * hist[index]
             spread == background * weight_foreground
                         - (SumUpTo(hist, Len(GrayLevels)) - background) * weight
         IN  IF weight = 0
               THEN OtsuLoop(hist, i + 1, weight, sum_background, max_numerator, max_denominator, threshold)
             ELSE IF weight_foreground = 0 THEN threshold
             ELSE IF FractionGreater(spread * spread, weight * weight_foreground, max_numerator, max_denominator)
               THEN OtsuLoop(hist, i + 1, weight, background, spread * spread, weight * weight_foreground, index)
             ELSE OtsuLoop(hist, i + 1, weight, background, max_numerator, max_denominator, threshold)

_otsu_threshold(hist) == OtsuLoop(hist, 1, 0, 0, 0, 1, 128)

BelowCount(hist, threshold) ==
    Cardinality({<<level, k>> \in GrayLevelSet \X (1..MaxPixels + 1) : level <= threshold /\ k <= hist[level]})

ForegroundIsBelowWhenMajority(below, above) == below >= above

ForegroundIsBelow(below, above) == below <= above

\* Ratios are pairs <<numerator, denominator>>; contrast is in 255ths.
_measure_metrics(hist, edge_hits) ==
    IF PixelCount(hist) = 0 THEN None
    ELSE IF _contrast_ratio(hist) * 20 < 255 THEN None
    ELSE LET total == PixelCount(hist)
             below == BelowCount(hist, _otsu_threshold(hist))
             above == total - below
             foreground_pixels == IF ForegroundIsBelow(below, above) THEN below ELSE above
             edge_in_foreground == IF edge_hits <= foreground_pixels THEN edge_hits ELSE foreground_pixels
         IN  IF below = 0 \/ above = 0 THEN None
             ELSE Some([foreground_ratio |-> <<foreground_pixels, total>>,
                        edge_ratio |-> <<edge_in_foreground, total>>,
                        stroke_ratio |-> IF edge_in_foreground > 0
                                           THEN <<foreground_pixels, edge_in_foreground>>
                                           ELSE <<0, 1>>,
                        contrast |-> _contrast_ratio(hist)])

EdgeHits == {0, 1, 3}

InitMeasure ==
    /\ \E hist \in AutocontrastImages, edge_hits \in EdgeHits :
         callIn = Some([gray |-> hist, edge_hits |-> edge_hits])
    /\ callOut = None
    /\ pipeline = None
    /\ ResolveIdle
    /\ CommonIdle
    /\ ChecklistIdle
    /\ OcrIdle
    /\ JobsIdle

MeasureMetrics ==
    /\ callIn # None
    /\ callOut = None
    /\ callOut' = Some([metrics |-> _measure_metrics(Get(callIn).gray, Get(callIn).edge_hits)])
    /\ UNCHANGED <<callIn, pipeline, notCallVars>>

NextMeasure == MeasureMetrics

SpecMeasure == InitMeasure /\ [][NextMeasure]_vars

----------------------------------------------------------------------------
\* ocr/__init__.py: _attach_span_verification.  A text is the sequence of its
\* runs of letters and digits; a span carries its text, image and box.

Words == {"old", "TOM", "a", "5"}

\* text.upper(), run by run
Upper(word) ==
    CASE word = "old" -> "OLD"
      [] word = "TOM" -> "TOM"
      [] word = "a" -> "A"
      [] word = "5" -> "5"

SingleCharacter(token) == token \in {"A", "5"}

IsDigit(token) == token = "5"

KeepToken(token) == ~SingleCharacter(token) \/ IsDigit(token)

_tokenize_for_verification(text) ==
    SelectSeq([i \in 1..Len(text) |-> Upper(text[i])], KeepToken)

SeqToSet(seq) == {seq[i] : i \in 1..Len(seq)}

\* (candidate.normalized or {}).get("image_index")
_candidate_image_index(cand) ==
    IF IsNone(cand.normalized) THEN None ELSE Get(cand.normalized).image_index

SpanSelected(span, image_index) ==
    IsNone(image_index) \/ span.image_index = Get(image_index)

_span_token_set(spans, image_index) ==
    UNION {SeqToSet(_tokenize_for_verification(spans[i].text)) :
             i \in {j \in 1..Len(spans) : SpanSelected(spans[j], image_index)}}

Overlap(tokens, span) ==
    Cardinality(SeqToSet(tokens) \cap SeqToSet(_tokenize_for_verification(span.text)))

\* The first span of the greatest overlap among the selected spans that share
\* a token: a later span replaces the best one only on a greater score.
_best_span_for_tokens(tokens, spans, image_index) ==
    LET eligible == {i \in 1..Len(spans) :
                        SpanSelected(spans[i], image_index) /\ Overlap(tokens, spans[i]) > 0}
    IN  IF tokens = <<>> \/ eligible = {} THEN None
        ELSE Some(spans[CHOOSE i \in eligible :
                          \A j \in eligible :
                              \/ Overlap(tokens, spans[j]) < Overlap(tokens, spans[i])
                              \/ Overlap(tokens, spans[j]) = Overlap(tokens, spans[i]) /\ i <= j])

\* round(n / d, 3), in thousandths
Round3(n, d) == RoundDiv(1000 * n, d)

MatchedTokens(tokens, span_tokens) ==
    SelectSeq(tokens, LAMBDA token : token \in span_tokens)

\* Mutant: the spans of every image are searched.
_verify_tokens_with_spans_any_image(tokens, spans, image_index) ==
    IF tokens = <<>>
    THEN [kind |-> "TokenVerification", matched |-> FALSE, coverage |-> 0,
          token_count |-> Some(0), matched_token_count |-> Some(0), source |-> "span"]
    ELSE LET matched == MatchedTokens(tokens, _span_token_set(spans, None))
         IN  [kind |-> "TokenVerification", matched |-> matched # <<>>,
              coverage |-> Round3(Len(matched), Len(tokens)),
              token_count |-> Some(Len(tokens)),
              matched_token_count |-> Some(Len(matched)), source |-> "span"]

_verify_tokens_with_spans(tokens, spans, image_index) ==
    IF tokens = <<>>
    THEN [kind |-> "TokenVerification", matched |-> FALSE, coverage |-> 0,
          token_count |-> Some(0), matched_token_count |-> Some(0), source |-> "span"]
    ELSE LET matched == MatchedTokens(tokens, _span_token_set(spans, image_index))
         IN  [kind |-> "TokenVerification", matched |-> matched # <<>>,
              coverage |-> Round3(Len(matched), Len(tokens)),
              token_count |-> Some(Len(tokens)),
              matched_token_count |-> Some(Len(matched)), source |-> "span"]

_attach_span_verification(cand, spans) ==
    IF IsNone(cand) THEN None
    ELSE LET tokens == _tokenize_for_verification(Get(cand).value)
             image_index == _candidate_image_index(Get(cand))
             span == _best_span_for_tokens(tokens, spans, image_index)
             verification == _verify_tokens_with_spans(tokens, spans, image_index)
             copied == IF IsNone(Get(cand).normalized) THEN EmptyDict ELSE Get(Get(cand).normalized)
             verified == [copied EXCEPT !.verification = Some(verification)]
             normalized == IF IsNone(span) THEN verified
                           ELSE [verified EXCEPT !.bbox = Some(Get(span).bbox),
                                                 !.image_index = Some(Get(span).image_index)]
             confidence == IF IsNone(Get(cand).confidence) /\ Get(verification.token_count) > 0
                             THEN Some(Round3(Get(verification.matched_token_count),
                                              Get(verification.token_count)))
                             ELSE Get(cand).confidence
         IN  Some([value |-> Get(cand).value,
                   confidence |-> confidence,
                   evidence |-> Get(cand).evidence,
                   normalized |-> Some(normalized),
                   numeric_value |-> Get(cand).numeric_value,
                   unit |-> Get(cand).unit])

Texts == UNION {[1..n -> Words] : n \in 0..MaxTokens}

OcrSpan(text, image_index, bbox) == [text |-> text, image_index |-> image_index, bbox |-> bbox]

VerifySpanLists ==
    {<<>>,
     <<OcrSpan(<<"old", "TOM">>, 0, "box1")>>,
     <<OcrSpan(<<"TOM">>, 0, "box1"), OcrSpan(<<"old">>, 1, "box2")>>,
     <<OcrSpan(<<"a", "5">>, 1, "box1")>>,
     <<OcrSpan(<<"old">>, 0, "box1"), OcrSpan(<<"TOM", "old">>, 0, "box2")>>,
     <<OcrSpan(<<"5">>, 0, "box1"), OcrSpan(<<"TOM", "5">>, 1, "box2")>>}

VerifyCandidates ==
    {None} \cup
    {Some([value |-> text, confidence |-> confidence, evidence |-> None,
           normalized |-> normalized, numeric_value |-> None, unit |-> None]) :
        text \in Texts, confidence \in Optional({500}),
        normalized \in {None, Some(EmptyDict), Some([EmptyDict EXCEPT !.image_index = Some(1)])}}

InitVerify ==
    /\ \E cand \in VerifyCandidates, spans \in VerifySpanLists :
         callIn = Some([cand |-> cand, spans |-> spans])
    /\ callOut = None
    /\ pipeline = None
    /\ ResolveIdle
    /\ CommonIdle
    /\ ChecklistIdle
    /\ OcrIdle
    /\ JobsIdle

\* build_field_candidates attaches the verification; _resolve_fields resolves
\* the field from the candidate.
AttachSpanVerification ==
    /\ callIn # None
    /\ callOut = None
    /\ LET attached == _attach_span_verification(Get(callIn).cand, Get(callIn).spans)
       IN  callOut' = Some([cand |-> attached, resolved |-> _resolve_field(attached)])
    /\ UNCHANGED <<callIn, pipeline, notCallVars>>

NextVerify == AttachSpanVerification

SpecVerify == InitVerify /\ [][NextVerify]_vars

\* Properties.

----------------------------------------------------------------------------
\* C1.  _resolve_field is total: no candidate gives status missing; a candidate
\* is verified exactly when its attached verification carries token_count > 0
\* and matched_token_count = token_count, and needs_review in every other case
\* (partial match, zero tokens, no verification); the source is always the model.

FullTokenMatch(cand) ==
    /\ ~IsNone(cand.normalized)
    /\ ~IsNone(Get(cand.normalized).verification)
    /\ LET v == Get(Get(cand.normalized).verification) IN
         /\ v.kind \in {"TokenVerification", "Mapping"}
         /\ v.token_count # None
         /\ v.matched_token_count # None
         /\ Get(v.token_count) > 0
         /\ Get(v.matched_token_count) = Get(v.token_count)

C1_ResolveFieldTotal ==
    extraction # None =>
        LET e == Get(extraction) IN
        /\ e.source = "qwen"
        /\ e.status \in {"verified", "needs_review", "missing"}
        /\ (candidate = None => e.status = "missing")
        /\ (candidate # None =>
               /\ (e.status = "verified" <=> FullTokenMatch(Get(candidate)))
               /\ (~FullTokenMatch(Get(candidate)) => e.status = "needs_review"))

\* A candidate whose TokenVerification matched every token has been resolved.
C1_Witness ==
    /\ candidate # None
    /\ extraction # None
    /\ FullTokenMatch(Get(candidate))
    /\ Get(Get(Get(candidate).normalized).verification).kind = "TokenVerification"
    /\ Get(extraction).status = "verified"

----------------------------------------------------------------------------
\* C2.  require_beverage_type depends only on label_info.beverage_type: with no
\* classification it returns a not_evaluated finding of severity info for every
\* allowed set and every applicant-declared type; with a classification whose
\* type is outside the allowed set it returns not_applicable (info); otherwise
\* it returns None.

C2_RequireBeverageType ==
    gateOut # None =>
        LET in == Get(gateIn)
            out == Get(gateOut)
        IN /\ (in.classification = None =>
                  /\ out # None
                  /\ Get(out).status = "not_evaluated"
                  /\ Get(out).severity = "info")
           /\ (in.classification # None
                 /\ Get(in.classification).beverage_type \notin in.allowed =>
                  /\ out # None
                  /\ Get(out).status = "not_applicable"
                  /\ Get(out).severity = "info")
           /\ (in.classification # None
                 /\ Get(in.classification).beverage_type \in in.allowed =>
                  out = None)

\* The gate ran without a classification although the applicant declared a type
\* that the allowed set contains.
C2_Witness ==
    /\ gateOut # None
    /\ Get(gateIn).classification = None
    /\ Get(gateIn).selected = Some("wine")
    /\ Get(gateIn).allowed = {"wine"}
    /\ Get(Get(gateOut)).status = "not_evaluated"

----------------------------------------------------------------------------
\* C3.  presence_rule returns pass (info) whenever the value is truthy, whatever
\* required is; for a missing or empty value it returns fail (warning) when
\* required is true, not_applicable (info) when false, not_evaluated (info)
\* when none.

C3_PresenceRule ==
    presenceOut # None =>
        LET in == Get(presenceIn)
            out == Get(presenceOut)
            present == in.value # None /\ Get(in.value) # ""
        IN /\ (present => out.status = "pass" /\ out.severity = "info")
           /\ (~present /\ in.required = Some(TRUE) =>
                  out.status = "fail" /\ out.severity = "warning")
           /\ (~present /\ in.required = Some(FALSE) =>
                  out.status = "not_applicable" /\ out.severity = "info")
           /\ (~present /\ in.required = None =>
                  out.status = "not_evaluated" /\ out.severity = "info")

\* A present value passed although the requirement was false.
C3_Witness ==
    /\ presenceOut # None
    /\ Get(presenceIn).value = Some("PRODUCT OF FRANCE")
    /\ Get(presenceIn).required = Some(FALSE)
    /\ Get(presenceOut).status = "pass"

----------------------------------------------------------------------------
\* C4.  evaluate_checklist calls every rule of ALL_RULES exactly once with the
\* same RuleContext and returns exactly one finding per rule in the fixed
\* order: the 11 common rules, the 8 spirits-only rules, the 4 wine-only rules,
\* whatever the label contents and the beverage type.

\* The rule_id each rule function puts in its findings.
RuleIdOf(rule) ==
    CASE rule = "field_of_vision_check" -> "field_of_vision"
      [] rule = "wine_designation_present" -> "wine_designation_presence"
      [] OTHER -> rule

ExpectedRuleOrder == COMMON_RULES \o DISTILLED_SPIRITS_RULES \o WINE_RULES

C4_ChecklistOrder ==
    /\ Len(COMMON_RULES) = 11 /\ Len(DISTILLED_SPIRITS_RULES) = 8 /\ Len(WINE_RULES) = 4
    /\ Len(calls) <= Len(ExpectedRuleOrder)
    /\ calls = SubSeq(ExpectedRuleOrder, 1, Len(calls))
    /\ \A i, j \in 1..Len(calls) : calls[i] = calls[j] => i = j
    /\ contextsSeen \subseteq {Get(ruleContext)}
    /\ Len(findings) <= Len(calls)
    /\ \A i \in 1..Len(findings) : findings[i].rule_id = RuleIdOf(ExpectedRuleOrder[i])
    /\ (checklistResult # None /\ Get(checklistResult).kind = "returned" =>
           /\ calls = ExpectedRuleOrder
           /\ Get(checklistResult).findings = Some(findings)
           /\ Len(findings) = 23)

\* A checklist was returned for a wine label on which only the brand was found.
C4_Witness ==
    /\ checklistResult # None
    /\ Get(checklistResult).kind = "returned"
    /\ Len(Get(Get(checklistResult).findings)) = 23
    /\ Get(ruleContext).label_info.beverage_type # None
    /\ Get(Get(ruleContext).label_info.beverage_type).beverage_type = "wine"
    /\ Truthy(Get(ruleContext).label_info.brand_name.value)
    /\ ~Truthy(Get(ruleContext).label_info.net_contents.value)

----------------------------------------------------------------------------
\* C5.  If any rule raises during evaluate_checklist the exception propagates
\* and no ChecklistResult is returned: the evaluation never yields a partial
\* list of findings and never replaces the failing rule by a pass finding.

C5_RuleErrorsPropagate ==
    \* a call that produced no finding ended the evaluation with the exception
    /\ (Len(calls) > Len(findings) =>
           /\ checklistResult # None
           /\ Get(checklistResult).kind = "raised"
           /\ Get(checklistResult).raised_by = calls[Len(calls)]
           /\ Len(calls) = Len(findings) + 1)
    /\ (checklistResult # None /\ Get(checklistResult).kind = "raised" =>
           Get(checklistResult).findings = None)
    \* every finding of the list is what the rule itself returned
    /\ \A i \in 1..Len(findings) : findings[i] = CallRule(ALL_RULES[i], Get(ruleContext))
    \* a returned checklist holds the complete list
    /\ (checklistResult # None /\ Get(checklistResult).kind = "returned" =>
           /\ Len(calls) = Len(findings)
           /\ Len(findings) = Len(ALL_RULES)
           /\ Get(checklistResult).findings = Some(findings))

\* grape_varietals raised after 20 rules had returned their findings.
C5_Witness ==
    /\ checklistResult # None
    /\ Get(checklistResult).kind = "raised"
    /\ Get(checklistResult).raised_by = "grape_varietals"
    /\ Len(findings) = 20

----------------------------------------------------------------------------
\* C6.  For any number of threads calling predict on one client in any
\* interleaving, at most one call is inside the wrapped backend's predict at
\* any moment, and the lock is held only for the duration of that one call.

\* The threads inside the with block.
OcrHolders == {t \in OcrThreads : ocrPc[t] \in {"locked", "in_backend", "exit_return", "exit_raise"}}

C6_OcrCallsSerialized ==
    /\ ocrActive <= 1
    /\ Cardinality({t \in OcrThreads : ocrPc[t] = "in_backend"}) = ocrActive
    /\ Cardinality(OcrHolders) <= 1
    /\ (ocrLock <=> OcrHolders # {})

\* One thread is inside the backend while another waits for the lock.
C6_Witness ==
    /\ ocrActive = 1
    /\ \E t, u \in OcrThreads : ocrPc[t] = "in_backend" /\ ocrPc[u] = "waiting"

----------------------------------------------------------------------------
\* C7.  When the backend's predict raises, predict propagates the exception
\* and releases the lock, so every later predict call on the same client, from
\* any thread, eventually enters the backend and ends: no sequence of calls
\* that contains failures leaves the client deadlocked.

C7_LockReleasedOnFailure ==
    /\ [][\A t \in OcrThreads :
            ocrPc[t] = "exit_raise" /\ ocrPc'[t] # "exit_raise" =>
                /\ ~ocrLock'
                /\ ocrPc'[t] = "idle"
                /\ ocrLog' = Append(ocrLog, "raised")]_vars
    /\ \A t \in OcrThreads : (ocrPc[t] = "waiting") ~> (ocrPc[t] = "in_backend")
    /\ \A t \in OcrThreads : (ocrPc[t] = "in_backend") ~> (ocrPc[t] = "idle")

\* A call returned after an earlier call had failed.
C7_Witness ==
    /\ Len(ocrLog) >= 2
    /\ ocrLog[1] = "raised"
    /\ ocrLog[2] = "returned"

----------------------------------------------------------------------------
\* C8.  The status of a job only ever changes queued -> running and then
\* running -> completed or running -> failed: a job is created queued, none
\* becomes completed or failed without having been running, and completed and
\* failed are terminal, in every interleaving of submit, decide and the worker.

StatusChanges == {<<"queued", "running">>, <<"running", "completed">>, <<"running", "failed">>}

C8_StatusTransitions ==
    [][/\ \A id \in DOMAIN jobHeap :
            jobHeap[id].status # jobHeap'[id].status =>
                <<jobHeap[id].status, jobHeap'[id].status>> \in StatusChanges
       /\ \A id \in DOMAIN jobHeap' \ DOMAIN jobHeap : jobHeap'[id].status = "queued"]_vars

\* One job has completed and another has failed.
C8_Witness ==
    \E i, j \in DOMAIN jobHeap :
        jobHeap[i].status = "completed" /\ jobHeap[j].status = "failed"

----------------------------------------------------------------------------
\* C9.  One sequential worker drains the queue: whatever the number of
\* concurrent submitters, at most one job of the store has status running,
\* executions of _process_job never overlap, and each submitted job id is
\* processed at most once.

C9_SingleSequentialWorker ==
    /\ Cardinality({id \in _jobs : jobHeap[id].status = "running"}) <= 1
    /\ Cardinality({w \in DOMAIN workers : workers[w].pc = "processing"}) <= 1
    /\ \A i, j \in DOMAIN processed : i # j => processed[i] # processed[j]

\* The worker is processing its second job while the first, finished, is
\* still in the store and a submitter is inside submit.
C9_Witness ==
    /\ Len(processed) = 2
    /\ \E w \in DOMAIN workers : workers[w].pc = "processing"
    /\ processed[1] \in _jobs
    /\ jobHeap[processed[1]].status \in {"completed", "failed"}
    /\ jobHeap[processed[2]].status = "running"
    /\ \E c \in DOMAIN clients : clients[c].pc = "submit_return"

----------------------------------------------------------------------------
\* C10.  The worker never holds the JobStore lock while _process_job runs: the
\* lock is held only inside the with blocks of submit, get, list_jobs, decide
\* and _update_job, so each of those operations can complete while a job is
\* running, and submit returns the new job without waiting for the worker.

ClientLockedPcs == {"submit_insert", "get_read", "list_read", "decide_pop"}
WorkerLockedPcs == {"get_read", "update_lookup", "update_setattr"}

\* The lock is held exactly by a thread inside one of the with blocks.
LockHeldOnlyInBlocks ==
    /\ \A c \in DOMAIN clients : _lock = ClientThread(c) <=> clients[c].pc \in ClientLockedPcs
    /\ \A w \in DOMAIN workers : _lock = WorkerThread(w) <=> workers[w].pc \in WorkerLockedPcs
    /\ \A w \in DOMAIN workers : workers[w].pc \in {"call_process", "processing"} => _lock # WorkerThread(w)

\* While a job is being processed every started operation of a caller can
\* take its next step, or waits for a caller that can.
CallersNotBlockedByProcessing ==
    (\E w \in DOMAIN workers : workers[w].pc = "processing") =>
        \A c \in DOMAIN clients :
            clients[c].pc \notin {"idle", "done"} =>
                \/ ENABLED ClientStep(c)
                \/ \E d \in DOMAIN clients : _lock = ClientThread(d) /\ ENABLED ClientStep(d)

\* The claim as stated: the job submit returns has status queued.
C10_SubmitReturnsQueued ==
    /\ LockHeldOnlyInBlocks
    /\ CallersNotBlockedByProcessing
    /\ \A c \in DOMAIN clients :
           clients[c].pc = "submit_return" => jobHeap[Get(clients[c].job)].status = "queued"

\* Amended: the job is queued until submit has put its id on the queue, and
\* the job submit returns is queued as long as the worker has not taken the id.
C10_LockNotHeldWhileProcessing ==
    /\ LockHeldOnlyInBlocks
    /\ CallersNotBlockedByProcessing
    /\ \A c \in DOMAIN clients :
           /\ clients[c].pc \in {"submit_lock", "submit_insert", "submit_put"} =>
                  jobHeap[Get(clients[c].job)].status = "queued"
           /\ clients[c].pc = "submit_return" =>
                  \/ jobHeap[Get(clients[c].job)].status = "queued"
                  \/ \A i \in DOMAIN _queue : _queue[i] # Get(clients[c].job)

\* A submit is about to return, and a get waits for the lock, while the
\* worker processes another job.
C10_Witness ==
    /\ \E w \in DOMAIN workers : workers[w].pc = "processing"
    /\ \E c, d \in DOMAIN clients :
           /\ clients[c].pc = "submit_return"
           /\ jobHeap[Get(clients[c].job)].status = "queued"
           /\ clients[d].pc = "get_lock"

----------------------------------------------------------------------------
\* C11.  The enhanced OCR pass runs only when the first pass returned no
\* spans.  When both passes return no spans the extraction raises the
\* RuntimeError 'no text was detected' and yields no LabelInfo; otherwise it
\* returns a LabelInfo and the spans of the first pass that was not empty.

C11_EnhancedPassOnlyWhenEmpty ==
    pipeline # None =>
        LET p == Get(pipeline) IN
        /\ p.enhanced_spans # None => p.paddle_spans = Some(<<>>)
        /\ p.pc \in {"empty_check", "raised", "returned"} =>
               (p.enhanced_spans # None <=> p.paddle_spans = Some(<<>>))
        /\ p.pc = "raised" <=> p.error # None
        /\ p.pc = "raised" =>
               /\ p.paddle_spans = Some(<<>>)
               /\ p.enhanced_spans = Some(<<>>)
               /\ p.error = Some("RuntimeError: OCR completed but no text was detected.")
               /\ p.label_info = None
               /\ p.spans = None
        /\ p.pc = "returned" =>
               /\ p.label_info # None
               /\ p.spans # None
               /\ Get(p.spans) # <<>>
               /\ Get(p.spans) = (IF Get(p.paddle_spans) # <<>> THEN Get(p.paddle_spans) ELSE Get(p.enhanced_spans))
               /\ (Get(p.paddle_spans) # <<>> => p.enhanced_spans = None)

\* The first pass found nothing, the enhanced pass did, and its spans are
\* returned.
C11_Witness ==
    /\ pipeline # None
    /\ Get(pipeline).pc = "returned"
    /\ Get(pipeline).paddle_spans = Some(<<>>)
    /\ Get(pipeline).spans = Some(<<VodkaSpan>>)

----------------------------------------------------------------------------
\* C12.  _field_of_vision_metadata: when brand_name, class_type or
\* alcohol_content lacks a candidate, a 4-value bbox or a non-negative integer
\* image_index the status is unknown with reason missing_fields, missing_bbox
\* or missing_image_index; fields on different images give needs_review with
\* reason multiple_images; an image index out of range or an image width <= 0
\* gives unknown; otherwise span_ratio is the union width over the image width
\* and the status is pass exactly when it is at most 0.4.  The boxes
\* [100,100,300,200], [120,220,300,280], [140,300,280,340] on a width-1000
\* image give span_ratio 0.2 and pass.

FovLacksCandidate(c) == c = None \/ Get(c).normalized = None \/ Get(Get(c).normalized) = EmptyDict
FovLacksBbox(c) == Get(Get(c).normalized).bbox = None \/ Len(Get(Get(Get(c).normalized).bbox)) # 4
FovLacksImageIndex(c) == Get(Get(c).normalized).image_index = None \/ Get(Get(Get(c).normalized).image_index) < 0
FovLacking(c) == IF FovLacksCandidate(c) THEN TRUE ELSE FovLacksBbox(c) \/ FovLacksImageIndex(c)
FovBox(c) == Get(Get(Get(c).normalized).bbox)
FovIndex(c) == Get(Get(Get(c).normalized).image_index)

\* All three fields located, on one image that exists and has a width.
FovMeasurable(args) ==
    LET c == args.candidates IN
    IF FovLacking(c.brand_name) \/ FovLacking(c.class_type) \/ FovLacking(c.alcohol_content) THEN FALSE
    ELSE IF FovIndex(c.brand_name) # FovIndex(c.class_type) \/ FovIndex(c.brand_name) # FovIndex(c.alcohol_content) THEN FALSE
    ELSE IF FovIndex(c.brand_name) >= Len(args.image_sizes) THEN FALSE
    ELSE args.image_sizes[FovIndex(c.brand_name) + 1][1] > 0

FovUnionWidth(c) ==
    SetMax({FovBox(c.brand_name)[3], FovBox(c.class_type)[3], FovBox(c.alcohol_content)[3]})
    - SetMin({FovBox(c.brand_name)[1], FovBox(c.class_type)[1], FovBox(c.alcohol_content)[1]})

FovImageWidth(args) == args.image_sizes[FovIndex(args.candidates.brand_name) + 1][1]

C12_FieldOfVisionMetadata ==
    (callOut # None /\ Get(callOut).fn = "_field_of_vision_metadata") =>
        LET args == Get(callIn)
            c == args.candidates
            m == Get(Get(callOut).metadata)
            lacking == FovLacking(c.brand_name) \/ FovLacking(c.class_type) \/ FovLacking(c.alcohol_content)
        IN /\ lacking =>
                 /\ m.status = "unknown"
                 /\ m.reason \in {Some("missing_fields"), Some("missing_bbox"), Some("missing_image_index")}
           /\ FovLacksCandidate(c.brand_name) => m.reason = Some("missing_fields")
           /\ (~FovLacksCandidate(c.brand_name) /\ FovLacksBbox(c.brand_name)) => m.reason = Some("missing_bbox")
           /\ (~FovLacking(c.brand_name) /\ FovLacksCandidate(c.class_type)) => m.reason = Some("missing_fields")
           /\ (~FovLacksCandidate(c.brand_name) /\ ~FovLacksBbox(c.brand_name) /\ FovLacksImageIndex(c.brand_name)) =>
                 m.reason = Some("missing_image_index")
           /\ ~lacking =>
                 IF FovIndex(c.brand_name) # FovIndex(c.class_type) \/ FovIndex(c.brand_name) # FovIndex(c.alcohol_content)
                 THEN m.status = "needs_review" /\ m.reason = Some("multiple_images")
                 ELSE IF ~FovMeasurable(args)
                 THEN m.status = "unknown" /\ m.reason \in {Some("image_index_out_of_range"), Some("invalid_image_size")}
                 ELSE /\ m.status = (IF 10 * FovUnionWidth(c) <= 4 * FovImageWidth(args) THEN "pass" ELSE "needs_review")
                      /\ m.reason = None
                      /\ m.image_index = Some(FovIndex(c.brand_name))
                      /\ 2 * (Get(m.span_ratio) * FovImageWidth(args) - 10000 * FovUnionWidth(c)) <= FovImageWidth(args)
                      /\ 2 * (10000 * FovUnionWidth(c) - Get(m.span_ratio) * FovImageWidth(args)) <= FovImageWidth(args)
           /\ (/\ ~lacking
               /\ FovBox(c.brand_name) = <<100, 100, 300, 200>>
               /\ FovBox(c.class_type) = <<120, 220, 300, 280>>
               /\ FovBox(c.alcohol_content) = <<140, 300, 280, 340>>
               /\ FovMeasurable(args)
               /\ FovImageWidth(args) = 1000) =>
                 m.status = "pass" /\ m.span_ratio = Some(2000) /\ m.bbox_union = Some(<<100, 100, 300, 340>>)

\* The three example boxes on the width-1000 image have been measured.
C12_Witness ==
    /\ callOut # None
    /\ Get(callOut).fn = "_field_of_vision_metadata"
    /\ FovMeasurable(Get(callIn))
    /\ FovImageWidth(Get(callIn)) = 1000
    /\ FovBox(Get(callIn).candidates.brand_name) = <<100, 100, 300, 200>>
    /\ Get(Get(callOut).metadata).span_ratio = Some(2000)
    /\ Get(Get(callOut).metadata).status = "pass"

----------------------------------------------------------------------------
\* C13.  The field_of_vision finding is pass only when the metadata on
\* brand_name has status pass, which _apply_field_of_vision attaches only when
\* brand name, class/type and alcohol content are located on one image with
\* span_ratio <= 0.4.  Missing metadata, status unknown and multiple_images
\* never give pass: on a distilled-spirits label they give needs_review.

FovAttached(label_info) == NormalizedOrEmpty(label_info.brand_name).field_of_vision

FovAmbiguous(label_info) ==
    IF FovAttached(label_info) = None THEN TRUE
    ELSE \/ Get(FovAttached(label_info)).status = "unknown"
         \/ Get(FovAttached(label_info)).reason = Some("multiple_images")

IsSpiritsLabel(label_info) ==
    IF label_info.beverage_type = None THEN FALSE
    ELSE Get(label_info.beverage_type).beverage_type = "distilled_spirits"

C13_FieldOfVisionPassOnlyOnPass ==
    (callOut # None /\ Get(callOut).fn = "field_of_vision_check") =>
        LET label_info == Get(Get(callOut).label_info)
            finding == Get(Get(callOut).finding)
            applied == label_info # Get(callIn).label_info
        IN /\ finding.rule_id = "field_of_vision"
           /\ finding.status = "pass" =>
                 /\ FovAttached(label_info) # None
                 /\ Get(FovAttached(label_info)).status = "pass"
                 /\ IsSpiritsLabel(label_info)
           /\ (finding.status = "pass" /\ applied) =>
                 /\ FovMeasurable(Get(callIn))
                 /\ 10 * FovUnionWidth(Get(callIn).candidates) <= 4 * FovImageWidth(Get(callIn))
           /\ FovAmbiguous(label_info) =>
                 /\ finding.status # "pass"
                 /\ IsSpiritsLabel(label_info) => finding.status = "needs_review"

\* A spirits label whose three fields lie on two images has been judged.
C13_Witness ==
    /\ callOut # None
    /\ Get(callOut).fn = "field_of_vision_check"
    /\ IsSpiritsLabel(Get(Get(callOut).label_info))
    /\ FovAttached(Get(Get(callOut).label_info)) # None
    /\ Get(FovAttached(Get(Get(callOut).label_info))).reason = Some("multiple_images")
    /\ Get(Get(callOut).finding).status = "needs_review"

----------------------------------------------------------------------------
\* C14.  _apply_field_of_vision is a functional update: in the LabelInfo it
\* returns only brand_name, class_type and alcohol_content can differ from the
\* input; each keeps its value, status, confidence, evidence, source, numeric
\* value, unit and the other entries of normalized, and all three carry the
\* same field_of_vision metadata; the 17 other fields and beverage_type are
\* carried over, and the arguments are left as they were.

FovUpdatedFields == {"brand_name", "class_type", "alcohol_content"}

FovKeeps(old, new) ==
    /\ new.value = old.value
    /\ new.status = old.status
    /\ new.confidence = old.confidence
    /\ new.evidence = old.evidence
    /\ new.source = old.source
    /\ new.numeric_value = old.numeric_value
    /\ new.unit = old.unit
    /\ new.normalized # None
    /\ \A k \in DOMAIN EmptyDict \ {"field_of_vision"} :
           Get(new.normalized)[k] = (IF old.normalized = None THEN None ELSE Get(old.normalized)[k])

C14_ApplyIsFunctionalUpdate ==
    [][(callOut = None /\ callOut' # None /\ Get(callOut').fn = "_apply_field_of_vision") =>
          LET old == Get(callIn).label_info
              new == Get(Get(callOut').label_info)
          IN /\ callIn' = callIn
             /\ DOMAIN new = DOMAIN old
             /\ \A f \in DOMAIN old \ FovUpdatedFields : new[f] = old[f]
             /\ new.beverage_type = old.beverage_type
             /\ Cardinality(DOMAIN old \ FovUpdatedFields) = 18
             /\ \A f \in FovUpdatedFields :
                    /\ FovKeeps(old[f], new[f])
                    /\ Get(new[f].normalized).field_of_vision = Some(_field_of_vision_metadata(Get(callIn).candidates, Get(callIn).image_sizes))
                    /\ Get(new[f].normalized).field_of_vision = Get(new.brand_name.normalized).field_of_vision]_vars

\* Fields that already carried a verification entry and a measured alcohol
\* content have received passing metadata.
C14_Witness ==
    /\ callOut # None
    /\ Get(callOut).fn = "_apply_field_of_vision"
    /\ Get(callIn).label_info.alcohol_content.normalized # None
    /\ Get(Get(callIn).label_info.alcohol_content.normalized).verification = FovVerification
    /\ Get(Get(callOut).label_info).alcohol_content.numeric_value = Some(45)
    /\ Get(Get(Get(Get(callOut).label_info).alcohol_content.normalized).field_of_vision).status = "pass"
    /\ Get(Get(Get(callOut).label_info).alcohol_content.normalized).verification = FovVerification

----------------------------------------------------------------------------
\* C15.  warning_text returns fail exactly when the warning value is empty;
\* pass exactly when the value contains the GOVERNMENT WARNING header, its
\* whitespace-normalized text equals the canonical text or its upper-cased
\* form, and the boldness evidence has status pass; needs_review in every
\* other case, with severity warning when there is a text issue and info when
\* only the boldness is unconfirmed.

RuleCalled(rule) == callIn # None /\ callOut # None /\ Get(callIn).rule = rule

WarningValue(context) == context.label_info.warning_text.value

WarningTextMatches(value) ==
    /\ HeaderPresent(value)
    /\ _normalize_warning_text(value) \in {CANONICAL_WARNING_TEXT, CANONICAL_WARNING_UPPER}

\* The evidence the rule uses: the boldness carried by the field, else the one
\* measured on the header crop, else "unavailable".
WarningBoldnessStatus(context) ==
    LET normalized == NormalizedOrEmpty(context.label_info.warning_text) IN
    IF normalized.warning_boldness # None THEN Get(normalized.warning_boldness).status
    ELSE _boldness_evidence(_compute_warning_boldness(context, normalized)).status

C15_WarningTextOutcome ==
    RuleCalled("warning_text") =>
        LET context == Get(callIn).context
            value == WarningValue(context)
            finding == Get(callOut)
            empty == value = None \/ value = Some("")
        IN /\ finding.status = "fail" <=> empty
           /\ ~empty =>
                 /\ finding.status = "pass" <=>
                        (WarningTextMatches(Get(value)) /\ WarningBoldnessStatus(context) = "pass")
                 /\ finding.status # "pass" =>
                        /\ finding.status = "needs_review"
                        /\ finding.severity = (IF WarningTextMatches(Get(value)) THEN "info" ELSE "warning")

\* The canonical text with a header whose boldness is not confirmed.
C15_Witness ==
    /\ RuleCalled("warning_text")
    /\ WarningValue(Get(callIn).context) = Some(CANONICAL_WARNING_UPPER)
    /\ WarningBoldnessStatus(Get(callIn).context) = "needs_review"
    /\ Get(callOut).status = "needs_review"
    /\ Get(callOut).severity = "info"

----------------------------------------------------------------------------
\* C16.  country_of_origin_presence: a detected value always gives pass; with
\* no value the finding is fail when the declared source contains imported,
\* not_applicable when it contains domestic and not imported, and
\* not_evaluated when the source is absent, empty or names neither.  Entries
\* are compared trimmed and lower-cased; imported wins over domestic.

DeclaredSources(application_fields) ==
    IF application_fields = None THEN {}
    ELSE IF Get(application_fields).source_of_product = None THEN {}
    ELSE {StripLower(Get(Get(application_fields).source_of_product)[i]) :
            i \in 1..Len(Get(Get(application_fields).source_of_product))}

C16_CountryOfOriginOutcome ==
    RuleCalled("country_of_origin_presence") =>
        LET context == Get(callIn).context
            value == context.label_info.country_of_origin.value
            declared == DeclaredSources(context.application_fields)
            finding == Get(callOut)
        IN finding.status =
              (IF value # None /\ value # Some("") THEN "pass"
               ELSE IF "imported" \in declared THEN "fail"
               ELSE IF "domestic" \in declared THEN "not_applicable"
               ELSE "not_evaluated")

\* No country statement on a product declared both domestic and imported.
C16_Witness ==
    /\ RuleCalled("country_of_origin_presence")
    /\ Get(callIn).context.label_info.country_of_origin.value = None
    /\ DeclaredSources(Get(callIn).context.application_fields) = {"domestic", "imported"}
    /\ Get(callOut).status = "fail"

----------------------------------------------------------------------------
\* C17.  grape_varietals on a wine label: with no varietal value the finding
\* is fail.  With a value, the approved list is consulted only for a domestic
\* source; a missing appellation gives needs_review whatever the approval
\* outcome, with the combined message when a varietal is also unapproved;
\* with an appellation the finding is needs_review for an unapproved domestic
\* varietal, not_evaluated for an unknown source, and pass otherwise.

IsWineLabel(label_info) ==
    IF label_info.beverage_type = None THEN FALSE
    ELSE Get(label_info.beverage_type).beverage_type = "wine"

C17_GrapeVarietalsOutcome ==
    (RuleCalled("grape_varietals") /\ IsWineLabel(Get(callIn).context.label_info)) =>
        LET context == Get(callIn).context
            value == context.label_info.grape_varietals.value
            appellation == context.label_info.appellation_of_origin.value
            declared == DeclaredSources(context.application_fields)
            domestic == "domestic" \in declared /\ "imported" \notin declared
            unknown_source == "domestic" \notin declared /\ "imported" \notin declared
            finding == Get(callOut)
        IN IF value = None \/ value = Some("") THEN finding.status = "fail"
           ELSE LET unapproved == domestic /\ UnknownVarietals(Get(value)) # <<>> IN
                IF appellation = None \/ appellation = Some("")
                THEN /\ finding.status = "needs_review"
                     /\ finding.message =
                          (IF unapproved
                           THEN "Appellation not detected with a grape varietal designation, and one or more varietals may not be approved for domestic wine."
                           ELSE "Appellation not detected with a grape varietal designation.")
                ELSE finding.status =
                        (IF unapproved THEN "needs_review"
                         ELSE IF unknown_source THEN "not_evaluated"
                         ELSE "pass")

\* An imported wine with an appellation and a varietal that is not on the
\* domestic list passes.
C17_Witness ==
    /\ RuleCalled("grape_varietals")
    /\ IsWineLabel(Get(callIn).context.label_info)
    /\ Get(callIn).context.label_info.grape_varietals.value = Some("Arandell / Concordia Nova")
    /\ Get(callIn).context.label_info.appellation_of_origin.value = Some("NAPA VALLEY")
    /\ "imported" \in DeclaredSources(Get(callIn).context.application_fields)
    /\ Get(callOut).status = "pass"

----------------------------------------------------------------------------
\* C18.  classify_beverage_type: the wine score is 1.5 and the spirits score
\* 1.2 per (text block, keyword) hit; there is no prediction when both scores
\* are below 1.2, otherwise the higher score wins, wine on equal scores, with
\* confidence = winning score / (wine score + spirits score), which lies in
\* [0.5, 1].  ["VODKA"] gives distilled_spirits and ["Cabernet Sauvignon"]
\* gives wine, each with confidence >= 0.6.  Scores are in tenths.

RECURSIVE TotalHits(_, _)
TotalHits(text_blocks, kind) ==
    IF text_blocks = <<>> THEN 0
    ELSE (IF kind = "wine" THEN WineKeywordHits(text_blocks[1].text) ELSE SpiritsKeywordHits(text_blocks[1].text))
         + TotalHits(Tail(text_blocks), kind)

C18_ClassifyBeverageType ==
    (callIn # None /\ callOut # None /\ "text_blocks" \in DOMAIN Get(callIn)) =>
        LET text_blocks == Get(callIn).text_blocks
            prediction == Get(callOut).prediction
            wine == 15 * TotalHits(text_blocks, "wine")
            spirits == 12 * TotalHits(text_blocks, "spirits")
        IN /\ prediction = None <=> (wine < 12 /\ spirits < 12)
           /\ prediction # None =>
                 LET p == Get(prediction) IN
                 /\ p.beverage_type = (IF wine >= spirits THEN "wine" ELSE "distilled_spirits")
                 /\ p.confidence.den = wine + spirits
                 /\ p.confidence.num = (IF wine >= spirits THEN wine ELSE spirits)
                 /\ p.confidence.den > 0
                 /\ 2 * p.confidence.num >= p.confidence.den
                 /\ p.confidence.num <= p.confidence.den
           /\ text_blocks = <<TextBlock("VODKA")>> =>
                 /\ prediction # None
                 /\ Get(prediction).beverage_type = "distilled_spirits"
                 /\ 10 * Get(prediction).confidence.num >= 6 * Get(prediction).confidence.den
           /\ text_blocks = <<TextBlock("Cabernet Sauvignon")>> =>
                 /\ prediction # None
                 /\ Get(prediction).beverage_type = "wine"
                 /\ 10 * Get(prediction).confidence.num >= 6 * Get(prediction).confidence.den

\* Four wine hits against five spirits hits: equal scores, wine is predicted
\* with confidence one half.
C18_Witness ==
    /\ callIn # None
    /\ callOut # None
    /\ "text_blocks" \in DOMAIN Get(callIn)
    /\ Get(callIn).text_blocks = <<TextBlock("VODKA GIN RUM TEQUILA MEZCAL"), TextBlock("Merlot Pinot Chardonnay Riesling")>>
    /\ Get(callOut).prediction # None
    /\ Get(Get(callOut).prediction).beverage_type = "wine"
    /\ 2 * Get(Get(callOut).prediction).confidence.num = Get(Get(callOut).prediction).confidence.den

----------------------------------------------------------------------------
\* C19.  A recognised category hint of the vision model becomes the label's
\* classification with confidence 1.0, without keyword scoring; whenever
\* label_info.beverage_type is present beverage_type_presence uses it
\* (prediction source label_info) and its finding does not depend on the OCR
\* spans; the spans are scored only when label_info.beverage_type is absent.

\* What the hint texts stand for.
HintCategory(hint) ==
    IF hint = None THEN None
    ELSE IF Get(hint) \in {"Wine", " Sparkling Wine ", "wine_cooler"} THEN Some("wine")
    ELSE IF Get(hint) \in {"Distilled-Spirits", "distilled_spirit", "SPIRITS", "spirit"} THEN Some("distilled_spirits")
    ELSE None

\* The finding the rule gives for a classification of confidence 1.0.
HintFinding(category, application_fields) ==
    LET selected == IF application_fields = None THEN None ELSE Get(application_fields).beverage_type IN
    IF selected = None THEN "pass"
    ELSE IF Get(selected) = category THEN "pass"
    ELSE "needs_review"

C19_HintBypassesScoring ==
    (pipeline # None /\ Get(pipeline).pc # "first_pass") =>
        LET p == Get(pipeline)
            category == HintCategory(p.qwen_beverage_type)
        IN /\ p.beverage_prediction =
                 (IF category = None THEN None
                  ELSE Some([beverage_type |-> Get(category), confidence |-> [num |-> 1, den |-> 1]]))
           /\ p.pc = "returned" => Get(p.label_info).beverage_type = p.beverage_prediction
           /\ p.finding # None =>
                 LET source == Get(p.prediction_source).source
                     selected == Get(p.prediction_source).selected
                     label_info == Get(p.label_info)
                 IN /\ source = (IF label_info.beverage_type # None THEN "label_info" ELSE "ocr_spans")
                    /\ label_info.beverage_type # None =>
                          /\ Get(p.finding).status = HintFinding(Get(category), selected)
                          /\ \A spans \in OcrSpanLists :
                                 Get(p.finding) = beverage_type_presence([label_info |-> label_info, application_fields |-> selected, spans |-> Some(spans), images |-> None])
                    /\ label_info.beverage_type = None =>
                          Get(p.finding) = beverage_type_presence([label_info |-> label_info, application_fields |-> selected, spans |-> p.spans, images |-> None])
                    /\ (label_info.beverage_type = None /\ selected # None /\ Get(selected).beverage_type # None) =>
                          (Get(p.finding).message = "Selected beverage type matches the detected label type."
                              <=> _predict_from_spans(p.spans) = Some([beverage_type |-> Get(Get(selected).beverage_type), confidence |-> [num |-> IF Get(Get(selected).beverage_type) = "wine" THEN 15 ELSE 12, den |-> IF Get(Get(selected).beverage_type) = "wine" THEN 15 ELSE 12]]))

\* The hint says distilled spirits, the spans read as wine, the applicant
\* selected distilled spirits: the rule passes on the hint.
C19_Witness ==
    /\ pipeline # None
    /\ Get(pipeline).finding # None
    /\ Get(pipeline).qwen_beverage_type = Some("Distilled-Spirits")
    /\ Get(pipeline).spans = Some(<<PlainSpan, MerlotSpan>>)
    /\ Get(Get(pipeline).prediction_source).source = "label_info"
    /\ Get(Get(pipeline).prediction_source).selected = Some([beverage_type |-> Some("distilled_spirits"), source_of_product |-> None])
    /\ Get(Get(pipeline).finding).status = "pass"

----------------------------------------------------------------------------
\* C20.  _dedupe_lines keeps exactly one line per non-empty canonical key and
\* drops the lines whose key is empty; the kept line has the maximal
\* confidence among the lines of its key (unset counts as 0) and is the last
\* of those with that confidence; applied to its own output it returns the
\* same list.

\* The positions of the input lines with the given key.
LinesOfKey(lines, key) == {i \in 1..Len(lines) : normalize_for_match(lines[i].text) = key}

\* The last position among the lines of the key with maximal confidence.
LastBestOfKey(lines, key) ==
    LET best == SetMax({ConfidenceOrZero(lines[i]) : i \in LinesOfKey(lines, key)})
    IN SetMax({i \in LinesOfKey(lines, key) : ConfidenceOrZero(lines[i]) = best})

C20_DedupeLines ==
    (callIn # None /\ callOut # None /\ "deduped" \in DOMAIN Get(callOut)) =>
        LET lines == Get(callIn).lines
            deduped == Get(callOut).deduped
            keys == {normalize_for_match(lines[i].text) : i \in 1..Len(lines)} \ {""}
        IN /\ {normalize_for_match(deduped[i].text) : i \in 1..Len(deduped)} = keys
           /\ Len(deduped) = Cardinality(keys)
           /\ \A i \in 1..Len(deduped) :
                  deduped[i] = lines[LastBestOfKey(lines, normalize_for_match(deduped[i].text))]
           /\ Get(callOut).again # None => Get(Get(callOut).again) = deduped

\* The lines of the repository's test, without its first: two FOO lines of
\* equal confidence, a line without key; the later FOO line is kept.
C20_Witness ==
    /\ callIn # None
    /\ callOut # None
    /\ Get(callIn).lines = <<[text |-> "foo", confidence |-> Some(30)], [text |-> "FOO", confidence |-> Some(30)], [text |-> "!!!", confidence |-> Some(90)]>>
    /\ Get(callOut).deduped = <<[text |-> "FOO", confidence |-> Some(30)]>>
    /\ Get(callOut).again = Some(<<[text |-> "FOO", confidence |-> Some(30)]>>)

----------------------------------------------------------------------------
\* C21.  estimate_boldness: with no usable peer metrics the status is pass
\* exactly when contrast >= 0.15, stroke_ratio >= 3 and foreground_ratio >=
\* 0.02, else needs_review, with reason no_peer_spans; with peers, a peer
\* median of foreground_ratio or stroke_ratio that is <= 0 gives needs_review
\* with reason invalid_peer_metrics, and otherwise the status is pass exactly
\* when (header_fg/median_fg + header_stroke/median_stroke)/2 >= 1.1.

\* The k-th smallest of the values of a list.
KthSmallest(values, k) ==
    CHOOSE v \in {values[i] : i \in 1..Len(values)} :
        /\ Cardinality({i \in 1..Len(values) : values[i] < v}) < k
        /\ Cardinality({i \in 1..Len(values) : values[i] <= v}) >= k

\* Twice the median of a non-empty list.
TwiceMedian(values) ==
    IF Len(values) % 2 = 1 THEN 2 * KthSmallest(values, (Len(values) + 1) \div 2)
    ELSE KthSmallest(values, Len(values) \div 2) + KthSmallest(values, Len(values) \div 2 + 1)

UsablePeers(peer_crops) == {i \in 1..Len(peer_crops) : peer_crops[i] # None}

\* The values of one metric over the usable peers, as a list.
PeerValues(peer_crops, metric) ==
    LET usable == SelectSeq(peer_crops, LAMBDA crop : crop # None)
    IN [i \in 1..Len(usable) |-> Get(usable[i])[metric]]

C21_EstimateBoldness ==
    (callIn # None /\ callOut # None /\ Get(callIn).header_metrics # None) =>
        LET header == Get(Get(callIn).header_metrics)
            peer_crops == Get(callIn).peer_crops
            boldness == Get(Get(callOut).boldness)
        IN IF UsablePeers(peer_crops) = {}
           THEN /\ boldness.reason = Some("no_peer_spans")
                /\ boldness.status \in {"pass", "needs_review"}
                /\ boldness.status = "pass" <=>
                       (header.contrast >= 15 /\ header.stroke_ratio >= 30 /\ header.foreground_ratio >= 20)
           ELSE LET fg2 == TwiceMedian(PeerValues(peer_crops, "foreground_ratio"))
                    stroke2 == TwiceMedian(PeerValues(peer_crops, "stroke_ratio"))
                IN IF fg2 <= 0 \/ stroke2 <= 0
                   THEN boldness.status = "needs_review" /\ boldness.reason = Some("invalid_peer_metrics")
                   ELSE /\ boldness.status \in {"pass", "needs_review"}
                        /\ boldness.status = "pass" <=>
                               10 * (2 * header.foreground_ratio * stroke2 + 2 * header.stroke_ratio * fg2) >= 22 * fg2 * stroke2

\* A header exactly 1.1 times as heavy as the median of two peers passes.
C21_Witness ==
    /\ callIn # None
    /\ callOut # None
    /\ Get(callIn).header_metrics = Some([foreground_ratio |-> 33, stroke_ratio |-> 33, contrast |-> 14])
    /\ Len(Get(callIn).peer_crops) = 2
    /\ Get(callIn).peer_crops[1] # None
    /\ Get(callIn).peer_crops[2] # None
    /\ TwiceMedian(PeerValues(Get(callIn).peer_crops, "foreground_ratio")) = 60
    /\ TwiceMedian(PeerValues(Get(callIn).peer_crops, "stroke_ratio")) = 60
    /\ Get(Get(callOut).boldness).status = "pass"

----------------------------------------------------------------------------
\* C22.  _measure_metrics takes the binarized class with the smaller pixel
\* count as foreground (the pixels at or below the Otsu threshold on a tie),
\* and every crop that passes the contrast check yields metrics: after that
\* check neither class is ever empty, so the foreground always has pixels.

PassesContrastCheck(hist) ==
    /\ PixelCount(hist) > 0
    /\ 20 * (SortedPixel(hist, (PixelCount(hist) * 95) \div 100)
               - SortedPixel(hist, (PixelCount(hist) * 5) \div 100)) >= 255

ClassSizes(hist) ==
    LET below == BelowCount(hist, _otsu_threshold(hist))
    IN  [below |-> below, above |-> PixelCount(hist) - below]

MinorityCount(hist) ==
    IF ClassSizes(hist).below <= ClassSizes(hist).above
      THEN ClassSizes(hist).below ELSE ClassSizes(hist).above

----------------------------------------------------------------------------
\* C23.  In every checklist evaluate_checklist returns: with no beverage
\* classification on the label, the 8 spirits-only findings, the 4 wine-only
\* findings and class_type_presence are not_evaluated; with classification
\* wine the 8 spirits-only findings are not_applicable; with classification
\* distilled_spirits the 4 wine-only findings are not_applicable.  Each of
\* these findings has severity info.

FindingOfRule(rule) ==
    Get(Get(checklistResult).findings)[CHOOSE i \in 1..Len(ALL_RULES) : ALL_RULES[i] = rule]

RulesOf(rules) == {rules[i] : i \in 1..Len(rules)}

GatedAs(rules, status) ==
    \A rule \in rules :
        /\ FindingOfRule(rule).status = status
        /\ FindingOfRule(rule).severity = "info"

ChecklistProduced ==
    /\ checklistResult # None
    /\ Get(checklistResult).kind = "returned"

ClassificationOfLabel == Get(ruleContext).label_info.beverage_type

C23_GatedOutcomes ==
    ChecklistProduced =>
        /\ Cardinality(RulesOf(DISTILLED_SPIRITS_RULES)) = 8
        /\ Cardinality(RulesOf(WINE_RULES)) = 4
        /\ ClassificationOfLabel = None =>
             GatedAs(RulesOf(DISTILLED_SPIRITS_RULES) \cup RulesOf(WINE_RULES) \cup {"class_type_presence"},
                     "not_evaluated")
        /\ ClassificationOfLabel # None =>
             /\ Get(ClassificationOfLabel).beverage_type = "wine" =>
                  GatedAs(RulesOf(DISTILLED_SPIRITS_RULES), "not_applicable")
             /\ Get(ClassificationOfLabel).beverage_type = "distilled_spirits" =>
                  GatedAs(RulesOf(WINE_RULES), "not_applicable")

C23_Witness ==
    /\ ChecklistProduced
    /\ ClassificationOfLabel # None
    /\ Get(ClassificationOfLabel).beverage_type = "wine"
    /\ Get(ruleContext).label_info.statement_of_age.value # None
    /\ FindingOfRule("statement_of_age_presence").status = "not_applicable"
    /\ FindingOfRule("grape_varietals").status \notin {"not_applicable", "not_evaluated"}

----------------------------------------------------------------------------
\* C24.  For every candidate and span list the attached TokenVerification has
\* token_count = the number of candidate tokens, matched_token_count = the
\* number of those tokens found in the token set of the spans (of the
\* candidate's image when it has one), 0 <= matched_token_count <= token_count,
\* and matched true exactly when matched_token_count > 0; coverage, and the
\* confidence of a candidate without explicit confidence and with tokens, is
\* matched_token_count / token_count rounded to three decimals (coverage 0 and
\* no confidence when there are no tokens); the resolved field is verified
\* exactly when all of at least one token are matched.

VerifyCalled == callIn # None /\ callOut # None /\ "spans" \in DOMAIN Get(callIn)

AttachedTo(cand) == Get(Get(Get(callOut).cand).normalized).verification

CandidateTokens == _tokenize_for_verification(Get(Get(callIn).cand).value)

FoundTokenCount ==
    Cardinality({i \in 1..Len(CandidateTokens) :
                    \E j \in 1..Len(Get(callIn).spans) :
                        LET span == Get(callIn).spans[j]
                            own == _candidate_image_index(Get(Get(callIn).cand))
                        IN  /\ IsNone(own) \/ span.image_index = Get(own)
                            /\ \E k \in 1..Len(span.text) : Upper(span.text[k]) = CandidateTokens[i]})

\* thousandths is count / total rounded to three decimals
RoundedRatio(thousandths, count, total) ==
    /\ 2 * (thousandths * total - 1000 * count) <= total
    /\ 2 * (1000 * count - thousandths * total) <= total

CountsAndMatched ==
    LET v == Get(AttachedTo(Get(callIn).cand)) IN
        /\ Get(v.token_count) = Len(CandidateTokens)
        /\ Get(v.matched_token_count) = FoundTokenCount
        /\ 0 <= Get(v.matched_token_count)
        /\ Get(v.matched_token_count) <= Get(v.token_count)
        /\ v.matched <=> Get(v.matched_token_count) > 0

\* The claim as stated: coverage and derived confidence are the exact ratio.
C24_ExactRatio ==
    (VerifyCalled /\ Get(callIn).cand # None) =>
        LET v == Get(AttachedTo(Get(callIn).cand))
            n == Get(v.token_count)
            m == Get(v.matched_token_count)
            given == Get(Get(callIn).cand).confidence
            confidence == Get(Get(callOut).cand).confidence
        IN  /\ CountsAndMatched
            /\ IF n = 0 THEN v.coverage = 0 ELSE v.coverage * n = 1000 * m
            /\ (given = None /\ n > 0) => (confidence # None /\ Get(confidence) * n = 1000 * m)
            /\ (given = None /\ n = 0) => confidence = None
            /\ given = None =>
                 (Get(callOut).resolved.status = "verified" <=> confidence = Some(1000))

C24_TokenVerification ==
    (VerifyCalled /\ Get(callIn).cand # None) =>
        LET v == Get(AttachedTo(Get(callIn).cand))
            n == Get(v.token_count)
            m == Get(v.matched_token_count)
            given == Get(Get(callIn).cand).confidence
            confidence == Get(Get(callOut).cand).confidence
        IN  /\ CountsAndMatched
            /\ IF n = 0 THEN v.coverage = 0 ELSE RoundedRatio(v.coverage, m, n)
            /\ (given = None /\ n > 0) => (confidence # None /\ RoundedRatio(Get(confidence), m, n))
            /\ (given = None /\ n = 0) => confidence = None
            /\ given # None => confidence = given
            /\ Get(callOut).resolved.status = "verified" <=> (n > 0 /\ m = n)
            /\ (given = None /\ Get(callOut).resolved.status = "verified") => confidence = Some(1000)

C24_Witness ==
    /\ VerifyCalled
    /\ Get(callIn).cand # None
    /\ Get(Get(callIn).cand).confidence = None
    /\ Get(AttachedTo(Get(callIn).cand)).token_count = Some(3)
    /\ Get(AttachedTo(Get(callIn).cand)).matched_token_count = Some(1)
    /\ Get(AttachedTo(Get(callIn).cand)).coverage = 333
    /\ Get(Get(callOut).cand).confidence = Some(333)
    /\ Get(callOut).resolved.status = "needs_review"

----------------------------------------------------------------------------
\* C25.  beverage_type_presence: with an applicant-selected beverage type the
\* finding is needs_review when no type is detected or the detected type
\* differs from the selection, and pass when they are equal; with no selected
\* type it is fail when no type is detected, pass when the detected
\* classification has confidence >= 0.6 and needs_review when it is below 0.6.
\* The detected classification is the label's, or else the one of the spans.

SelectedType(context) ==
    IF context.application_fields = None THEN None
    ELSE Get(context.application_fields).beverage_type

DetectedClassification(context) ==
    IF context.label_info.beverage_type # None THEN context.label_info.beverage_type
    ELSE _predict_from_spans(context.spans)

C25_BeverageTypePresence ==
    RuleCalled("beverage_type_presence") =>
        LET context == Get(callIn).context
            selected == SelectedType(context)
            detected == DetectedClassification(context)
            status == Get(callOut).status
        IN  /\ (selected # None /\ detected = None) => status = "needs_review"
            /\ (selected # None /\ detected # None) =>
                 status = IF Get(detected).beverage_type = Get(selected) THEN "pass" ELSE "needs_review"
            /\ (selected = None /\ detected = None) => status = "fail"
            /\ (selected = None /\ detected # None) =>
                 status = IF 10 * Get(detected).confidence.num >= 6 * Get(detected).confidence.den
                            THEN "pass" ELSE "needs_review"

C25_Witness ==
    /\ RuleCalled("beverage_type_presence")
    /\ SelectedType(Get(callIn).context) = None
    /\ Get(callIn).context.label_info.beverage_type = None
    /\ DetectedClassification(Get(callIn).context) # None
    /\ Get(DetectedClassification(Get(callIn).context)).confidence = [num |-> 90, den |-> 150]
    /\ Get(callOut).status = "pass"

----------------------------------------------------------------------------
\* C26.  A reader that obtained a job from get or list_jobs and reads its
\* fields observes a consistent job: with status completed it sees a result
\* holding a label_info and a checklist with error None and a completed_at
\* time, with status failed a result whose error is set; no reader observes a
\* completed or failed job whose result is still absent.

ConsistentJob(job) ==
    /\ job.status = "completed" =>
         /\ job.result # None
         /\ Get(job.result).label_info # None
         /\ Get(job.result).checklist # None
         /\ Get(job.result).error = None
         /\ job.completed_at # None
    /\ job.status = "failed" =>
         /\ job.result # None
         /\ Get(job.result).error # None

\* The jobs a caller has been handed and can read.
HeldJobs(c) ==
    IF clients[c].pc \in {"get_return", "load_result", "load_return"} /\ clients[c].job # None
      THEN {Get(clients[c].job)}
    ELSE IF clients[c].pc = "list_return"
      THEN {clients[c].listed[i] : i \in DOMAIN clients[c].listed}
    ELSE {}

\* What load_job has read: the status, then the result of a completed job.
LoadJobSawResult(c) ==
    Len(clients[c].seen) = 2 =>
        (clients[c].seen[1] = "completed" =>
            /\ clients[c].seen[2] # None
            /\ Get(clients[c].seen[2]).label_info # None
            /\ Get(clients[c].seen[2]).checklist # None
            /\ Get(clients[c].seen[2]).error = None)

C26_ReadersSeeConsistentJobs ==
    \A c \in DOMAIN clients :
        /\ LoadJobSawResult(c)
        /\ \A id \in HeldJobs(c) : ConsistentJob(jobHeap[id])

----------------------------------------------------------------------------
\* C27.  decide removes the job for good.  The decide call that finds the job
\* in the map returns it and takes it out of the map, every other decide call
\* for that id returns None, so of the decide calls for one id exactly one
\* returns the job; a removed job never comes back into the map, get returns
\* None for it and list_jobs omits it; no worker update changes a removed job;
\* and a job removed while its id is still on the queue is never processed.

\* The job was in the map and decide has taken it out.
Removed(id) ==
    /\ id \in DOMAIN jobHeap
    /\ id \notin _jobs
    /\ \A c \in DOMAIN clients :
           clients[c].job_id = id => clients[c].pc \notin {"submit_lock", "submit_insert"}

OnQueue(id) == \E i \in DOMAIN _queue : _queue[i] = id

WasProcessed(id) == \E i \in DOMAIN processed : processed[i] = id

\* Callers inside decide(id) that hold the job it popped.
DecidersHolding(id) ==
    {c \in DOMAIN clients : clients[c].pc \in {"decide_set", "decide_return"} /\ clients[c].job = Some(id)}

DecideStep ==
    \A c \in DOMAIN clients :
        (clients[c].pc = "decide_pop" /\ clients'[c].pc # "decide_pop") =>
            /\ clients'[c].job = (IF clients[c].job_id \in _jobs THEN Some(clients[c].job_id) ELSE None)
            /\ clients[c].job_id \notin _jobs'

ReadStepsOmitRemoved ==
    \A c \in DOMAIN clients :
        /\ (clients[c].pc = "get_read" /\ clients'[c].pc = "get_return" /\ Removed(clients[c].job_id)) =>
               clients'[c].job = None
        /\ (clients[c].pc = "list_read" /\ clients'[c].pc = "list_sort") =>
               \A i \in DOMAIN clients'[c].listed : ~Removed(clients'[c].listed[i])

RemovedJobOnlyGetsDecision ==
    \A id \in DOMAIN jobHeap :
        (Removed(id) /\ jobHeap'[id] # jobHeap[id]) =>
            /\ jobHeap'[id] = [jobHeap[id] EXCEPT !.decision = jobHeap'[id].decision]
            /\ \E c \in DecidersHolding(id) : clients[c].pc = "decide_set" /\ clients'[c].pc = "decide_return"

C27_DecideRemovesForGood ==
    /\ [][DecideStep]_vars
    /\ [][ReadStepsOmitRemoved]_vars
    /\ [][RemovedJobOnlyGetsDecision]_vars
    /\ [][\A id \in DOMAIN jobHeap : Removed(id) => Removed(id)']_vars
    /\ [](\A id \in DOMAIN jobHeap : Cardinality(DecidersHolding(id)) <= 1)
    /\ \A id \in 1..MaxCalls :
           []((Removed(id) /\ OnQueue(id)) => [](~WasProcessed(id)))

\* Two decide calls for one job have finished, one holding the job and one
\* with None; the worker has taken the id off the queue and skipped the job.
C27_Witness ==
    \E id \in DOMAIN jobHeap :
        /\ Removed(id)
        /\ ~OnQueue(id)
        /\ ~WasProcessed(id)
        /\ \A w \in DOMAIN workers : workers[w].pc = "dequeue"
        /\ \E c, d \in DOMAIN clients :
               /\ clients[c].pc = "decide_return" /\ clients[c].job = Some(id)
               /\ clients[d].pc = "decide_return" /\ clients[d].job_id = id /\ clients[d].job = None

----------------------------------------------------------------------------
\* C28.  Under a fair scheduler, with every _process_job call returning or
\* raising, every submitted job that decide does not remove eventually reaches
\* completed or failed; a job whose processing raises is marked failed with
\* the error text unless decide removed it, and the worker goes back to the
\* queue and takes the next id instead of stopping.

Finished(id) == id \in DOMAIN jobHeap /\ jobHeap[id].status \in {"completed", "failed"}

\* The worker is inside the _update_job call that records the outcome for id.
UpdateUnderWay(id) ==
    \E w \in DOMAIN workers :
        workers[w].job_id = id /\ workers[w].pc = "update_setattr" /\ workers[w].changes # <<>>

MarkedFailed(id) ==
    /\ id \in DOMAIN jobHeap
    /\ jobHeap[id].status = "failed"
    /\ jobHeap[id].result = Some(ErrorResult)
    /\ jobHeap[id].completed_at # None

\* _process_job raised for the job the worker holds: the failing update is due.
RaisedPending(w) == workers[w].changes = FailedChanges

FailedJobsCarryTheError ==
    /\ \A id \in DOMAIN jobHeap :
           (jobHeap[id].status = "failed" /\ ~UpdateUnderWay(id)) => MarkedFailed(id)
    /\ \A w \in DOMAIN workers :
           (workers[w].pc = "update_setattr" /\ workers[w].next = "dequeue" /\ workers[w].changes = <<>>
              /\ jobHeap[workers[w].job_id].result = Some(ErrorResult)) =>
               MarkedFailed(workers[w].job_id)

\* Whether _process_job returns or raises, the worker's next step is the
\* _update_job call that ends the job, after which it is back at the queue.
WorkerRecordsTheOutcome ==
    \A w \in DOMAIN workers :
        (workers[w].pc = "processing" /\ workers'[w] # workers[w]) =>
            /\ workers'[w].pc = "update_lock"
            /\ workers'[w].changes \in {CompletedChanges, FailedChanges}
            /\ workers'[w].next = "dequeue"

C28_EveryJobFinishes ==
    /\ [][WorkerRecordsTheOutcome]_vars
    /\ \A id \in 1..MaxCalls : (id \in DOMAIN jobHeap) ~> (Removed(id) \/ Finished(id))
    /\ \A w \in Workers : RaisedPending(w) ~> (workers[w].pc = "dequeue")
    /\ []FailedJobsCarryTheError

\* The first job failed and stays in the store; the worker has gone on to the
\* second job, which has completed.
C28_Witness ==
    /\ Len(processed) = 2
    /\ processed[1] \in _jobs
    /\ MarkedFailed(processed[1])
    /\ processed[2] \in _jobs
    /\ jobHeap[processed[2]].status = "completed"
    /\ \A w \in DOMAIN workers : workers[w].pc = "dequeue"

----------------------------------------------------------------------------
\* C29.  When the warning_text field carries no precomputed warning_boldness,
\* the warning_text rule never returns pass: the boldness the rule computes
\* from the header crop is absent (header location or images missing, or the
\* crop not measurable) or has status needs_review, so a pass finding requires
\* a supplied warning_boldness with status pass.

SuppliedBoldness(context) == NormalizedOrEmpty(context.label_info.warning_text).warning_boldness

ComputedBoldness(context) ==
    _compute_warning_boldness(context, NormalizedOrEmpty(context.label_info.warning_text))

C29_NoPassWithoutSuppliedBoldness ==
    RuleCalled("warning_text") =>
        LET context == Get(callIn).context IN
            /\ SuppliedBoldness(context) = None =>
                 /\ Get(callOut).status # "pass"
                 /\ \/ ComputedBoldness(context) = None
                    \/ Get(ComputedBoldness(context)).status = "needs_review"
            /\ Get(callOut).status = "pass" =>
                 /\ SuppliedBoldness(context) # None
                 /\ Get(SuppliedBoldness(context)).status = "pass"

\* The canonical text, a located header whose crop measures as bold under the
\* fallback, and no supplied boldness: the finding is needs_review.
C29_Witness ==
    /\ RuleCalled("warning_text")
    /\ WarningValue(Get(callIn).context) # None
    /\ WarningTextMatches(Get(WarningValue(Get(callIn).context)))
    /\ SuppliedBoldness(Get(callIn).context) = None
    /\ Get(callIn).context.images = Some(<<[header_metrics |-> Some("pass")]>>)
    /\ ComputedBoldness(Get(callIn).context) # None
    /\ Get(ComputedBoldness(Get(callIn).context)).reason = Some("no_peer_spans")
    /\ Get(callOut).status = "needs_review"

----------------------------------------------------------------------------
\* C30.  Within one checklist, a type-gated rule reports not_evaluated for
\* lack of a beverage type exactly when the label carries no classification;
\* so whenever beverage_type_presence reports pass on the label's own
\* classification, no type-gated rule reports not_evaluated for lack of a
\* beverage type.  Without a classification on the label beverage_type_presence
\* classifies the OCR spans itself, which the gated rules do not.

TypeGatedRules == RulesOf(DISTILLED_SPIRITS_RULES) \cup RulesOf(WINE_RULES) \cup {"class_type_presence"}

LacksBeverageType(finding) ==
    /\ finding.status = "not_evaluated"
    /\ finding.message \in {"Beverage type not selected; rule not evaluated.",
                            "Beverage type not selected; class/type not evaluated."}

\* The claim as stated: a pass of beverage_type_presence excludes the gate.
C30_PassExcludesNotEvaluated ==
    (ChecklistProduced /\ FindingOfRule("beverage_type_presence").status = "pass") =>
        \A rule \in TypeGatedRules : ~LacksBeverageType(FindingOfRule(rule))

C30_GateFollowsLabelClassification ==
    ChecklistProduced =>
        /\ \A rule \in TypeGatedRules :
               LacksBeverageType(FindingOfRule(rule)) <=> ClassificationOfLabel = None
        /\ (FindingOfRule("beverage_type_presence").status = "pass" /\ ClassificationOfLabel # None) =>
               \A rule \in TypeGatedRules : ~LacksBeverageType(FindingOfRule(rule))

\* beverage_type_presence passes on the label's classification and a gated
\* rule of the other type is not_applicable, none is not_evaluated for lack of
\* a type although a statement of age is missing.
C30_Witness ==
    /\ ChecklistProduced
    /\ ClassificationOfLabel # None
    /\ FindingOfRule("beverage_type_presence").status = "pass"
    /\ FindingOfRule("statement_of_age_presence").status \in {"not_applicable", "not_evaluated"}
    /\ ~Truthy(Get(ruleContext).label_info.statement_of_age.value)
    /\ \A rule \in TypeGatedRules : ~LacksBeverageType(FindingOfRule(rule))

====
